---- MODULE Spec2Model ----
(***************************************************************************)
(* Press detection of switch_interface: the stateful falling-edge detector *)
(* detect_edges (src/switch_interface/detection.py) driven block by block  *)
(* the way listen._callback and the offline replays drive it:              *)
(*     state, press_idx = detect_edges(block, state, upper, lower, refr)   *)
(*                                                                         *)
(* Samples, bias and offsets are fixed-point numbers in units of 1e-4      *)
(* (0.2 is 2000); the exponential moving average rounds to the nearest     *)
(* unit.  Python offsets are 0-based and are kept 0-based here; TLA+       *)
(* sequences are 1-based, so block[i] of the source is data[i + 1].        *)
(* An Optional[int] is a sequence: <<>> is None and <<k>> is the int k.    *)
(***************************************************************************)
EXTENDS Integers, Sequences, FiniteSets, TLC

VARIABLES
    state,               \* the caller's EdgeState (rebound to the returned one)
    upper_offset,        \* configuration of the stream
    lower_offset,
    refractory_samples,
    block,               \* the block of the last call
    entry,               \* fields of the EdgeState passed in, at call entry
    arg,                 \* fields of that same object when the call is over
    press_index,         \* what the last call returned as press index
    raised,              \* exception of the last call: <<>> or <<type, message>>
    since_press,         \* samples from the last press to the next block start
    gap,                 \* distance in samples between the last two presses
    ncalls,              \* number of calls made
    \* listen and check_device
    pc,                  \* "start", "running", "returned" or "raised"
    fn,                  \* the function called: "", "listen" or "check_device"
    extra,               \* get_extra_settings() is not None
    opens,               \* the sd.InputStream(...) attempts, in order
    exc,                 \* exception the function raised: <<>> or <<type>>
    on_press_calls,      \* number of on_press() invocations
    reported,            \* callbacks in which detect_edges reported a press
    \* offline replay (auto_calibration._count_events)
    clip,                \* the samples replayed
    fs,                  \* its sample rate
    debounce_ms,         \* debounce of the last replay
    blocksize,           \* block size of the last replay
    cache,               \* the lru_cache of _memoised_count: key -> events
    events,              \* what the last replay returned
    log,                 \* the presses detect_edges reported in that replay
    hit,                 \* the last replay was answered from the cache
    nreplays,            \* number of replays made
    \* auto_calibration.calibrate
    cpc,                 \* "idle", "start", "sweep", "phase2", "tweak",
                         \* "dedup" or "done"
    target_presses,      \* <<>> for None, else <<target>>
    u_off,
    l_off,
    best_db,
    best_events,
    best_err,            \* defined when a target is given
    ref_n,               \* defined when no target is given
    sweep_d,             \* next debounce of the sweep (the loop's d)
    direction,
    scale,
    iters,               \* iterations made by the loop calibrate is in
    warned,              \* logger.warning has been called
    swept,               \* [d, err] of every debounce the sweep evaluated
    sweep_db,            \* <<>>, or <<best_db>> as the sweep left it
    scores,              \* |count - target| of every candidate evaluated
    diag,                \* the diagnostics of the result: <<>> before the return
    \* optimal_calibration.calibrate
    opt,                  \* its locals, as one record; opt.pc is its position
    persist,  \* calibration.py: the configuration files and the save/load calls made
    \* scan_engine.py and kb_gui.py
    scanner,  \* the Scanner and the keyboard it drives, as one record
    \* __main__.py
    press_queue, \* the queue, the presses put in it and the position of _pump_queue
    \* detection.py beside optimal_calibration.py
    twin,        \* detect_edges and _detect_events fed the same blocks
    \* pc_control.py and modifier_state.py
    controller,  \* the ModifierState and the events sent to the OS keyboard
    \* predictive.py
    predictor    \* the Predictor, its builder thread and the callers

dvars == <<state, upper_offset, lower_offset, refractory_samples, block, entry,
           arg, press_index, raised, since_press, gap, ncalls>>

lvars == <<pc, fn, extra, opens, exc, on_press_calls, reported>>

rvars == <<clip, fs, debounce_ms, blocksize, cache, events, log, hit,
           nreplays>>

cvars == <<cpc, target_presses, u_off, l_off, best_db, best_events, best_err,
           ref_n, sweep_d, direction, scale, iters, warned, swept, sweep_db,
           scores, diag>>

ovars == <<opt>>

pvars == <<persist>>

gvars == <<scanner, press_queue>>

tvars == <<twin>>

kvars == <<controller>>

nvars == <<predictor>>

vars == <<dvars, lvars, rvars, cvars, ovars, pvars, gvars, tvars, kvars, nvars>>

-----------------------------------------------------------------------------
(* Bounds of the model *)

MaxLen == 3          \* longest 1-D block
MaxCalls == 2        \* calls of detect_edges in one run
MaxR == 3            \* largest refractory_samples
MaxFrames == 2       \* frames per block delivered to the audio callback
MaxClip == 4         \* longest clip replayed
MaxBlock == 2        \* largest replay block size
MaxDb == 2           \* largest replay debounce_ms
MaxReplays == 2      \* replays in one run
MaxDips == 3         \* presses in a calibration clip
MaxTarget == 2       \* largest target_presses
ClipLen == 192       \* samples in a calibration clip
MaxOps == 2          \* save, load and foreign writes of a configuration file

-----------------------------------------------------------------------------
(* Inputs *)

\* sample values: idle level, a level just under the default upper
\* threshold (-0.2010), and the depressed level (-1.0)
Samples == {0, -2010, -10000}

\* (upper_offset, lower_offset): the defaults of listen, and the degenerate
\* pair -0.1 / -0.1
Offsets == {<<-2000, -5000>>, <<-1000, -1000>>}

RECURSIVE SeqsOfLen(_)
SeqsOfLen(n) ==
    IF n = 0 THEN {<<>>}
    ELSE {Append(s, x) : s \in SeqsOfLen(n - 1), x \in Samples}

\* a numpy array: its shape and its data
Blocks1D ==
    {[shape |-> <<Len(d)>>, data |-> d] :
        d \in UNION {SeqsOfLen(n) : n \in 1..MaxLen}}

\* np.zeros((2, 2)) and np.zeros((1, 2))
Blocks2D ==
    {[shape |-> <<r, 2>>, data |-> [i \in 1..r |-> <<0, 0>>]] : r \in {1, 2}}

Blocks == Blocks1D \cup Blocks2D

-----------------------------------------------------------------------------
(* EdgeState and the helpers of detect_edges *)

EdgeState(armed, cooldown, prev_sample, bias) ==
    [armed |-> armed, cooldown |-> cooldown,
     prev_sample |-> prev_sample, bias |-> bias]

ndim(b) == Len(b.shape)

RECURSIVE SeqSum(_)
\* the sum of the elements, halving the sequence to keep the recursion flat
SeqSum(s) ==
    IF s = <<>> THEN 0
    ELSE IF Len(s) = 1 THEN s[1]
    ELSE LET h == Len(s) \div 2
         IN  SeqSum(SubSeq(s, 1, h)) + SeqSum(SubSeq(s, h + 1, Len(s)))

\* num / den rounded to the nearest unit
Round(num, den) == (2 * num + den) \div (2 * den)

\* the whole block, without the mask
ValidAll(data, bias, lower) == data

\* block[block > state.bias + lower_offset]
Valid(data, bias, lower) == SelectSeq(data, LAMBDA x : x > bias + lower)

\* 0.99 * bias + 0.01 * mean(valid) when valid is not empty
UpdateBias(data, bias, lower) ==
    LET valid == Valid(data, bias, lower)
    IN  IF Len(valid) > 0
        THEN Round(99 * bias * Len(valid) + SeqSum(valid), 100 * Len(valid))
        ELSE bias

\* samples = [prev_sample] ++ block;
\* crossings[i] = samples[i] >= dyn_upper and samples[i + 1] <= dyn_lower
Crossings(prev_sample, data, dyn_upper, dyn_lower) ==
    LET samples == <<prev_sample>> \o data
    IN  [i \in 1..Len(data) |->
            samples[i] >= dyn_upper /\ samples[i + 1] <= dyn_lower]

\* np.flatnonzero(crossings[idx:]): the 0-based offsets, relative to idx,
\* of the true entries, ascending
flatnonzero(crossings, idx) ==
    LET n == Len(crossings)
        nz == {i - idx : i \in {j \in idx..(n - 1) : crossings[j + 1]}}
    IN  [k \in 1..Cardinality(nz) |->
            CHOOSE x \in nz : Cardinality({y \in nz : y < x}) = k - 1]

\* idxs[-1] + idx: the last crossing instead of the first
LastPress(crossings, idx) ==
    LET idxs == flatnonzero(crossings, idx)
    IN  IF Len(idxs) > 0 THEN <<idxs[Len(idxs)] + idx>> ELSE <<>>

\* idxs[0] + idx if idxs.size
FirstPress(crossings, idx) ==
    LET idxs == flatnonzero(crossings, idx)
    IN  IF Len(idxs) > 0 THEN <<idxs[1] + idx>> ELSE <<>>

\* while cooldown > 0 and idx < len(block): cooldown -= 1; idx += 1
\* the loop runs min(cooldown, len(block) - idx) times, if at all
CoolLoop(cooldown, idx, n) ==
    LET k == IF cooldown > 0 /\ idx < n
             THEN (IF cooldown <= n - idx THEN cooldown ELSE n - idx)
             ELSE 0
    IN  [cooldown |-> cooldown - k, idx |-> idx + k]

\* the lax policy: re-arm on the cooldown alone
RearmCoolingLax(cooldown, idx, data, dyn_upper) == cooldown = 0

\* re-arm test of the cooling branch:
\* cooldown == 0 and idx > 0 and block[idx - 1] >= dyn_upper
RearmCooling(cooldown, idx, data, dyn_upper) ==
    cooldown = 0 /\ idx > 0 /\ data[idx] >= dyn_upper

\* re-arm on the signal alone, before the cooldown has run out
RearmPressedEarly(cooldown, idx, data, dyn_upper) == data[idx] >= dyn_upper

\* re-arm test after a press: cooldown == 0 and block[idx - 1] >= dyn_upper
RearmPressed(cooldown, idx, data, dyn_upper) ==
    cooldown = 0 /\ data[idx] >= dyn_upper

\* the previous sample is not carried over
KeepPrevSample(data, prev_sample) == prev_sample

\* prev_sample of the returned state: block[-1] if len(block)
NextPrevSample(data, prev_sample) ==
    IF Len(data) > 0 THEN data[Len(data)] ELSE prev_sample

\* ValueError("block must be a 1-D array"): the message of
\* src/myproject/detection.py, without the shape
ShapeErrorNoShape(b) ==
    <<"ValueError", [text |-> "block must be a 1-D array", shape |-> <<>>]>>

\* ValueError(f"block must be a 1-D array (got shape {block.shape})")
ShapeError(b) ==
    <<"ValueError", [text |-> "block must be a 1-D array (got shape ",
                     shape |-> b.shape]>>

\* the branch as src/myproject/detection.py has it: armed again as soon as
\* the cooldown is shorter than the block
ScanLax(data, armed, cooldown, crossings, dyn_upper) ==
    IF ~armed
    THEN IF cooldown >= Len(data)
         THEN [armed |-> armed, cooldown |-> cooldown - Len(data),
               press_index |-> <<>>]
         ELSE [armed |-> TRUE, cooldown |-> cooldown,
               press_index |-> FirstPress(crossings, cooldown)]
    ELSE [armed |-> armed, cooldown |-> cooldown,
          press_index |-> FirstPress(crossings, 0)]

\* the branch on the armed flag: armed, cooldown and press_index before the
\* press is accounted for
Scan(data, armed, cooldown, crossings, dyn_upper) ==
    IF ~armed
    THEN IF cooldown >= Len(data)
         THEN [armed |-> armed, cooldown |-> cooldown - Len(data),
               press_index |-> <<>>]
         ELSE LET lp == CoolLoop(cooldown, cooldown, Len(data))
                  a  == RearmCooling(lp.cooldown, lp.idx, data, dyn_upper)
              IN  [armed |-> a, cooldown |-> lp.cooldown,
                   press_index |->
                       IF a THEN FirstPress(crossings, lp.idx) ELSE <<>>]
    ELSE [armed |-> armed, cooldown |-> cooldown,
          press_index |-> FirstPress(crossings, 0)]

\* if press_index is not None: disarm, start the cooldown and consume the
\* rest of the block
Pressed(data, scan, refractory, dyn_upper) ==
    IF scan.press_index # <<>>
    THEN LET lp == CoolLoop(refractory, scan.press_index[1] + 1, Len(data))
         IN  [armed |-> RearmPressed(lp.cooldown, lp.idx, data, dyn_upper),
              cooldown |-> lp.cooldown,
              press_index |-> scan.press_index]
    ELSE scan

\* detect_edges: the returned state and press index, the exception raised
\* and the fields of the EdgeState passed in once the call is over
detect_edges(b, st, upper, lower, refractory) ==
    IF ndim(b) # 1
    THEN [state |-> st, press_index |-> <<>>, raised |-> ShapeError(b),
          arg |-> st]
    ELSE LET data      == b.data
             bias      == UpdateBias(data, st.bias, lower)
             dyn_upper == bias + upper
             dyn_lower == bias + lower
             crossings == Crossings(st.prev_sample, data, dyn_upper, dyn_lower)
             scan      == Scan(data, st.armed, st.cooldown, crossings, dyn_upper)
             res       == Pressed(data, scan, refractory, dyn_upper)
         IN  [state |-> EdgeState(res.armed, res.cooldown,
                                   NextPrevSample(data, st.prev_sample), bias),
              press_index |-> res.press_index,
              raised |-> <<>>,
              arg |-> [st EXCEPT !.bias = bias]]

-----------------------------------------------------------------------------
(* The stream *)

\* state = EdgeState(armed=True, cooldown=0); the offsets and the refractory
\* period are fixed for the stream
InitDetector ==
    /\ state = EdgeState(TRUE, 0, 0, 0)
    /\ \E o \in Offsets : upper_offset = o[1] /\ lower_offset = o[2]
    /\ refractory_samples \in 0..MaxR
    /\ block = [shape |-> <<0>>, data |-> <<>>]
    /\ entry = state
    /\ arg = state
    /\ press_index = <<>>
    /\ raised = <<>>
    /\ since_press = <<>>
    /\ gap = <<>>
    /\ ncalls = 0

\* no audio function has been called
ListenIdle ==
    /\ pc = "start"
    /\ fn = ""
    /\ extra = FALSE
    /\ opens = <<>>
    /\ exc = <<>>
    /\ on_press_calls = 0
    /\ reported = 0

\* no replay has been made
ReplayIdle ==
    /\ clip = <<>>
    /\ fs = 0
    /\ debounce_ms = 0
    /\ blocksize = 0
    /\ cache = <<>>
    /\ events = <<>>
    /\ log = <<>>
    /\ hit = FALSE
    /\ nreplays = 0

\* calibrate has not been called
CalibIdle ==
    /\ cpc = "idle"
    /\ target_presses = <<>>
    /\ u_off = 0
    /\ l_off = 0
    /\ best_db = 0
    /\ best_events = <<>>
    /\ best_err = 0
    /\ ref_n = 0
    /\ sweep_d = 0
    /\ direction = 0
    /\ scale = 0
    /\ iters = 0
    /\ warned = FALSE
    /\ swept = {}
    /\ sweep_db = <<>>
    /\ scores = {}
    /\ diag = <<>>

\* optimal_calibration.calibrate has not been called
OptIdle == opt = [pc |-> "idle"]

\* the paths: the default one under ~/.switch_interface, and a bare file
\* name, whose dirname is ""
Paths ==
    {[dir |-> "~/.switch_interface", name |-> "detector.json"],
     [dir |-> "", name |-> "detector.json"]}

\* no configuration file has been touched
PersistIdle ==
    persist = [files |-> [p \in Paths |-> [kind |-> "missing"]], ops |-> <<>>]

\* nothing outside the detector and the calibrators has run
\* no Scanner has been constructed
ScanIdle == scanner = [phase |-> "none"]

\* main() has not run
MainIdle == press_queue = [pump |-> "none"]

\* the two detectors have not been set side by side
TwinIdle == twin = [pos |-> -1]

\* no PCController has been constructed
ControllerIdle == controller = [calls |-> <<>>]

\* no Predictor has been constructed
PredictorIdle == predictor = [started |-> -1]

\* nothing beside the scanner and the queue has run
OthersIdle == TwinIdle /\ ControllerIdle /\ PredictorIdle

RestIdle == PersistIdle /\ ScanIdle /\ MainIdle /\ OthersIdle

Init ==
    InitDetector /\ ListenIdle /\ ReplayIdle /\ CalibIdle /\ OptIdle /\ RestIdle

\* one call on a block of B: state, press_idx = detect_edges(block, state, ...); when the
\* call raises the caller's state is not rebound
Detect(B) ==
    /\ ncalls < MaxCalls
    /\ \E b \in B :
      \E r \in {detect_edges(b, state, upper_offset, lower_offset,
                              refractory_samples)} :
        LET n == Len(b.data)
        IN  /\ block' = b
            /\ entry' = state
            /\ arg' = r.arg
            /\ raised' = r.raised
            /\ press_index' = r.press_index
            /\ state' = IF r.raised = <<>> THEN r.state ELSE state
            /\ since_press' =
                 IF r.press_index # <<>> THEN <<n - r.press_index[1]>>
                 ELSE IF since_press # <<>> /\ r.raised = <<>>
                      THEN <<since_press[1] + n>>
                      ELSE since_press
            /\ gap' =
                 IF r.press_index # <<>> /\ since_press # <<>>
                 THEN <<since_press[1] + r.press_index[1]>>
                 ELSE gap
    /\ ncalls' = ncalls + 1
    /\ UNCHANGED <<upper_offset, lower_offset, refractory_samples>>

\* detect_edges called directly, on any array
DetectEdges == Detect(Blocks) /\ UNCHANGED <<nvars, kvars, tvars, gvars, pvars, lvars, rvars, cvars, ovars>>

Next == DetectEdges

Spec == Init /\ [][Next]_vars

-----------------------------------------------------------------------------
(* listen and check_device *)

\* if upper_offset <= lower_offset: raise ValueError(...)
ConfigUnchecked(upper, lower) == TRUE

ConfigOk(upper, lower) == ~(upper <= lower)

\* one sd.InputStream(**kwargs) attempt
Attempt(with_extra, ok) == [extra_settings |-> with_extra, ok |-> ok]

\* a fallback that gives up after the first failure
OpenNoRetry(has_extra, ok1, ok2) ==
    [opens |-> <<Attempt(has_extra, ok1)>>,
     exc |-> IF ok1 THEN <<>> ELSE <<"RuntimeError">>]

\* the try / except sd.PortAudioError of listen and of check_device: the
\* first attempt carries extra_settings when get_extra_settings() gave
\* some; on failure one more attempt without them, if there were any
OpenWithFallback(has_extra, ok1, ok2) ==
    IF ok1
    THEN [opens |-> <<Attempt(has_extra, TRUE)>>, exc |-> <<>>]
    ELSE IF has_extra
         THEN [opens |-> <<Attempt(TRUE, FALSE), Attempt(FALSE, ok2)>>,
               exc |-> IF ok2 THEN <<>> ELSE <<"RuntimeError">>]
         ELSE [opens |-> <<Attempt(FALSE, FALSE)>>,
               exc |-> <<"RuntimeError">>]

\* if press_idx: the truth value of the index instead of the None test
PressTruthy(p) == p # <<>> /\ p[1] # 0

\* if press_idx is not None
PressNotNone(p) == p # <<>>

\* listen(on_press, ...) up to the point where the stream is running; has
\* says whether the host API offers exclusive-mode settings, ok1 and ok2
\* whether the first and the second attempt to open the stream succeed
Listen ==
    /\ pc = "start"
    /\ fn' = "listen"
    /\ \E has \in BOOLEAN, ok1 \in BOOLEAN, ok2 \in BOOLEAN :
        /\ extra' = has
        /\ IF ~ConfigOk(upper_offset, lower_offset)
           THEN /\ exc' = <<"ValueError">>
                /\ pc' = "raised"
                /\ opens' = opens
           ELSE \E r \in {OpenWithFallback(has, ok1, ok2)} :
                /\ opens' = r.opens
                /\ exc' = r.exc
                /\ pc' = IF r.exc = <<>> THEN "running" ELSE "raised"
    /\ UNCHANGED <<nvars, kvars, tvars, gvars, pvars, ovars, dvars, rvars, cvars, on_press_calls, reported>>

\* check_device(...): open the stream and close it again
CheckDevice ==
    /\ pc = "start"
    /\ fn' = "check_device"
    /\ \E has \in BOOLEAN, ok1 \in BOOLEAN, ok2 \in BOOLEAN :
        /\ extra' = has
        /\ \E r \in {OpenWithFallback(has, ok1, ok2)} :
            /\ opens' = r.opens
            /\ exc' = r.exc
            /\ pc' = IF r.exc = <<>> THEN "returned" ELSE "raised"
    /\ UNCHANGED <<nvars, kvars, tvars, gvars, pvars, ovars, dvars, rvars, cvars, on_press_calls, reported>>

\* mono = indata.mean(axis=1): the callback always passes a 1-D block
CallbackBlocks == {b \in Blocks1D : Len(b.data) <= MaxFrames}

\* listen._callback: one mono block through detect_edges, then on_press()
\* if a press index came back
Callback ==
    /\ pc = "running"
    /\ Detect(CallbackBlocks)
    /\ on_press_calls' =
         IF PressNotNone(press_index') THEN on_press_calls + 1
         ELSE on_press_calls
    /\ reported' = IF press_index' # <<>> THEN reported + 1 ELSE reported
    /\ UNCHANGED <<nvars, kvars, tvars, gvars, pvars, ovars, rvars, cvars, pc, fn, extra, opens, exc>>

\* except KeyboardInterrupt: return
KeyboardInterrupt ==
    /\ pc = "running"
    /\ pc' = "returned"
    /\ UNCHANGED <<nvars, kvars, tvars, gvars, pvars, ovars, dvars, rvars, cvars, fn, extra, opens, exc,
                   on_press_calls, reported>>

NextListen == Listen \/ CheckDevice \/ Callback \/ KeyboardInterrupt

SpecListen == Init /\ [][NextListen]_vars

-----------------------------------------------------------------------------
(* offline replay: auto_calibration._count_events / _memoised_count *)

Rates == {1000, 1100}

\* clips of an idle level and a pressed level
Clips ==
    {s \in UNION {SeqsOfLen(n) : n \in 0..MaxClip} :
        \A i \in 1..Len(s) : s[i] \in {0, -10000}}

\* math.ceil(num / den) for num >= 0
Ceil(num, den) == (num + den - 1) \div den

Min(a, b) == IF a <= b THEN a ELSE b

\* samples[start : start + block] as the 1-D array detect_edges receives
Slice(s, start, bsz) ==
    LET d == SubSeq(s, start + 1, Min(start + bsz, Len(s)))
    IN  [shape |-> <<Len(d)>>, data |-> d]

\* if pressed: the truth value of the returned index
IfPressed(p) == p # <<>> /\ p[1] # 0

\* one iteration of the for loop: acc.events is the list being built,
\* acc.log keeps, for each block with a press, where the press was and
\* what was appended for it
ReplayBlock(acc, start, r) ==
    [state |-> r.state,
     events |-> IF IfPressed(r.press_index) THEN Append(acc.events, start)
                ELSE acc.events,
     log |-> IF r.press_index # <<>>
             THEN Append(acc.log,
                         [start |-> start, press_index |-> r.press_index[1],
                          event |-> IF IfPressed(r.press_index)
                                    THEN <<start>> ELSE <<>>])
             ELSE acc.log]

RECURSIVE ReplayFrom(_, _, _, _, _, _, _)
\* for start in range(start, len(samples), block); acc is read before the
\* test so that each iteration is evaluated before the next one starts
ReplayFrom(s, start, bsz, upper, lower, refractory, acc) ==
    IF Len(acc.events) >= 0 /\ start >= Len(s) THEN acc
    ELSE ReplayFrom(s, start + bsz, bsz, upper, lower, refractory,
             ReplayBlock(acc, start,
                 detect_edges(Slice(s, start, bsz), acc.state, upper, lower,
                              refractory)))

\* the body of _memoised_count: a fresh state, then the loop
_memoised_count(s, rate, upper, lower, db, bsz) ==
    ReplayFrom(s, 0, bsz, upper, lower, Ceil(db * rate, 1000),
               [state |-> EdgeState(TRUE, 0, 0, 0), events |-> <<>>,
                log |-> <<>>])

\* a cache key that leaves the debounce out
CacheKeyNoDebounce(s, rate, upper, lower, db, bsz) ==
    [buf |-> s, fs |-> rate, upper |-> upper, lower |-> lower,
     debounce_ms |-> 0, block |-> bsz]

\* the arguments lru_cache hashes (dtype and size are fixed by the clip)
CacheKey(s, rate, upper, lower, db, bsz) ==
    [buf |-> s, fs |-> rate, upper |-> upper, lower |-> lower,
     debounce_ms |-> db, block |-> bsz]

\* _count_events through @lru_cache: a stored result is returned as it is,
\* a new one is computed and stored
_count_events(c, s, rate, upper, lower, db, bsz) ==
    LET key == CacheKey(s, rate, upper, lower, db, bsz)
    IN  IF key \in DOMAIN c
        THEN [events |-> c[key], cache |-> c, hit |-> TRUE]
        ELSE LET ev == _memoised_count(s, rate, upper, lower, db, bsz).events
             IN  [events |-> ev,
                  cache |-> [k \in DOMAIN c \cup {key} |->
                                IF k = key THEN ev ELSE c[k]],
                  hit |-> FALSE]

\* the clip and its rate are drawn once; the thresholds are the detector's
InitReplay ==
    /\ InitDetector
    /\ refractory_samples = 0
    /\ ListenIdle
    /\ clip \in Clips
    /\ fs \in Rates
    /\ debounce_ms = 0
    /\ blocksize = 0
    /\ cache = <<>>
    /\ events = <<>>
    /\ log = <<>>
    /\ hit = FALSE
    /\ nreplays = 0
    /\ CalibIdle
    /\ OptIdle
    /\ RestIdle

\* one call _count_events(samples, fs, upper, lower, debounce_ms, block)
CountEvents ==
    /\ nreplays < MaxReplays
    /\ \E db \in 0..MaxDb, bsz \in 1..MaxBlock :
        /\ debounce_ms' = db
        /\ blocksize' = bsz
        /\ \E r \in {_count_events(cache, clip, fs, upper_offset,
                                   lower_offset, db, bsz)} :
            /\ events' = r.events
            /\ cache' = r.cache
            /\ hit' = r.hit
        /\ log' = _memoised_count(clip, fs, upper_offset, lower_offset,
                                  db, bsz).log
    /\ nreplays' = nreplays + 1
    /\ UNCHANGED <<nvars, kvars, tvars, gvars, pvars, ovars, dvars, lvars, cvars, clip, fs>>

NextReplay == CountEvents

SpecReplay == InitReplay /\ [][NextReplay]_vars

-----------------------------------------------------------------------------
(* auto_calibration.calibrate *)

\* block: int = 64, the default _count_events is called with
DefaultBlock == 64

\* db_list = range(10, 61, 2)
DbFirst == 10
DbLast == 60
DbStep == 2

\* while ... and best_db < 60
DbCap == 60

\* for _ in range(4)
MaxTweaks == 4

\* sample rates of the clips; every clip is shorter than one second
CalibRates == {1100, 7000}

\* 0-based sample indices at which a clip may hold a one-sample press
DipAt == <<1, 72, 147, 64, 101>>

\* a clip idle at 0.0 with one sample at -1.0 for each press
DipClip(dips) == [i \in 1..ClipLen |-> IF (i - 1) \in dips THEN -10000 ELSE 0]

CalibClips == {DipClip(ds) : ds \in SUBSET {DipAt[k] : k \in 1..MaxDips}}

Targets == {<<>>} \cup {<<t>> : t \in 0..MaxTarget}

Abs(x) == IF x < 0 THEN -x ELSE x

\* the k-th smallest value of the array s, k counted from 0
KthSmallest(s, k) ==
    CHOOSE v \in {s[i] : i \in DOMAIN s} :
        /\ Cardinality({i \in DOMAIN s : s[i] < v}) <= k
        /\ k < Cardinality({i \in DOMAIN s : s[i] <= v})

\* np.quantile(s, num / den), linear interpolation between order statistics
quantile(s, num, den) ==
    LET n == Cardinality(DOMAIN s)
        h == num * (n - 1)
        lo == h \div den
        a == KthSmallest(s, lo)
        b == KthSmallest(s, Min(lo + 1, n - 1))
    IN  a + Round((h % den) * (b - a), den)

\* np.median(s)
median(s) == quantile(s, 1, 2)

\* _rolling_baseline for len(raw) < fs: np.full_like(raw, quantile(raw, 0.80));
\* the constant vector is kept as its value
_rolling_baseline(raw, rate) == quantile(raw, 4, 5)

\* find_peaks(-residual): the indices of the plateaus of raw - baseline that
\* are lower than both neighbours, each reported at its middle sample. The
\* baseline is constant, so raw is compared in place of the residual.
\* distance= drops troughs next to a deeper one and never all of them; the
\* troughs of these clips are all equally deep, so the median of the kept
\* ones is the median of all.
find_troughs(raw) ==
    LET n == Len(raw)
        starts == {l \in 2..n : raw[l - 1] > raw[l]}
        ends == {r \in 1..(n - 1) : raw[r + 1] > raw[r]}
    IN  {(l + r) \div 2 : <<l, r>> \in
            {p \in starts \X ends :
                /\ p[1] <= p[2]
                /\ \A k \in p[1]..p[2] : raw[k] = raw[p[1]]}}

\* troughs = raw[trough_idx] if trough_idx.size else np.array([raw.min()])
Troughs(raw) ==
    LET trough_idx == find_troughs(raw)
    IN  IF trough_idx # {} THEN [i \in trough_idx |-> raw[i]]
        ELSE <<KthSmallest(raw, 0)>>

\* _choose_thresholds(raw, baseline, fs), with baseline_med the median of
\* the constant baseline vector
_choose_thresholds(raw, baseline_med) ==
    LET depth == baseline_med - median(Troughs(raw))
        upper == baseline_med - Round(40 * depth, 100)
        lower == baseline_med - Round(70 * depth, 100)
        min_gap == Round(25 * depth, 100)
    IN  [upper |-> upper,
         lower |-> IF upper - lower < min_gap THEN upper - min_gap ELSE lower]

\* score = lambda ev: abs(len(ev) - (target_presses or len(ev)))
score(ev, target) ==
    IF target = <<>> \/ target[1] = 0 THEN 0 ELSE Abs(Len(ev) - target[1])

\* _has_duplicates(events, db_ms, fs)
_has_duplicates(ev, db_ms, rate) ==
    LET min_gap == (db_ms * rate) \div 1000
    IN  \E i \in 1..(Len(ev) - 1) : ev[i + 1] - ev[i] < min_gap

\* scale *= 1.15 ** direction
NextScale(sc, dir) ==
    IF dir = 1 THEN Round(sc * 115, 100) ELSE Round(sc * 100, 115)

\* u_off * scale, the scale in units of 1e-4
Scaled(off, sc) == Round(off * sc, 10000)

\* the clip, its rate and the target are the arguments of calibrate
CalibCall(clips, rates, targets) ==
    /\ InitDetector
    /\ refractory_samples = 0
    /\ upper_offset > lower_offset
    /\ ListenIdle
    /\ clip \in clips
    /\ fs \in rates
    /\ debounce_ms = 0
    /\ blocksize = 0
    /\ cache = <<>>
    /\ events = <<>>
    /\ log = <<>>
    /\ hit = FALSE
    /\ nreplays = 0
    /\ cpc = "start"
    /\ target_presses \in targets
    /\ u_off = 0
    /\ l_off = 0
    /\ best_db = 0
    /\ best_events = <<>>
    /\ best_err = 0
    /\ ref_n = 0
    /\ sweep_d = 0
    /\ direction = 0
    /\ scale = 0
    /\ iters = 0
    /\ warned = FALSE
    /\ swept = {}
    /\ sweep_db = <<>>
    /\ scores = {}
    /\ diag = <<>>
    /\ OptIdle
    /\ RestIdle

InitCalib == CalibCall(CalibClips, CalibRates, Targets)

replay_unused == <<debounce_ms, blocksize, events, log, hit, nreplays>>

\* phase 0 and the first replay, at 10 ms
CalibStart ==
    /\ cpc = "start"
    /\ \E base \in {_rolling_baseline(clip, fs)} :
       \E thr \in {_choose_thresholds(clip, base)} :
       \E r \in {_count_events(cache, clip, fs, thr.upper - base,
                               thr.lower - base, DbFirst, DefaultBlock)} :
        /\ u_off' = thr.upper - base
        /\ l_off' = thr.lower - base
        /\ cache' = r.cache
        /\ best_db' = DbFirst
        /\ best_events' = r.events
        /\ best_err' = score(r.events, target_presses)
        /\ ref_n' = IF target_presses = <<>>
                    THEN (IF Len(r.events) > 1 THEN Len(r.events) ELSE 1)
                    ELSE 0
        /\ swept' = {[d |-> DbFirst, err |-> score(r.events, target_presses)]}
        /\ scores' = {score(r.events, target_presses)}
    /\ sweep_d' = DbFirst + DbStep
    /\ iters' = 0
    /\ cpc' = "sweep"
    /\ UNCHANGED <<nvars, kvars, tvars, gvars, pvars, ovars, dvars, lvars, clip, fs, replay_unused, diag, target_presses,
                   direction, scale, warned, sweep_db>>

\* one iteration of `for d in db_list[1:]` with a target; the loop is left
\* on an exact match or after the last value, and then `if best_err:` warns
SweepTarget ==
    /\ cpc = "sweep"
    /\ target_presses # <<>>
    /\ sweep_d <= DbLast
    /\ \E r \in {_count_events(cache, clip, fs, u_off, l_off, sweep_d,
                               DefaultBlock)} :
       \E err \in {score(r.events, target_presses)} :
       \E leave \in {err = 0 \/ sweep_d + DbStep > DbLast} :
       \E err2 \in {IF err # 0 /\ err < best_err THEN err ELSE best_err} :
       \E db2 \in {IF err = 0 \/ err < best_err THEN sweep_d ELSE best_db} :
        /\ cache' = r.cache
        /\ best_db' = db2
        /\ best_events' = IF err = 0 \/ err < best_err THEN r.events
                          ELSE best_events
        /\ best_err' = err2
        /\ swept' = swept \cup {[d |-> sweep_d, err |-> err]}
        /\ scores' = scores \cup {err}
        /\ sweep_d' = IF leave THEN sweep_d ELSE sweep_d + DbStep
        /\ cpc' = IF leave THEN "phase2" ELSE "sweep"
        /\ warned' = IF leave THEN err2 # 0 ELSE warned
        /\ sweep_db' = IF leave THEN <<db2>> ELSE sweep_db
        /\ iters' = IF leave THEN 0 ELSE iters + 1
    /\ UNCHANGED <<nvars, kvars, tvars, gvars, pvars, ovars, dvars, lvars, clip, fs, replay_unused, diag, target_presses,
                   u_off, l_off, ref_n, direction, scale>>

\* one iteration of `for d in db_list[1:]` without a target
SweepNoTarget ==
    /\ cpc = "sweep"
    /\ target_presses = <<>>
    /\ sweep_d <= DbLast
    /\ \E r \in {_count_events(cache, clip, fs, u_off, l_off, sweep_d,
                               DefaultBlock)} :
       \E found \in {100 * Len(r.events) >= 98 * ref_n} :
       \E leave \in {found \/ sweep_d + DbStep > DbLast} :
        /\ cache' = r.cache
        /\ best_db' = IF found THEN sweep_d ELSE best_db
        /\ best_events' = IF found THEN r.events ELSE best_events
        /\ swept' = swept \cup {[d |-> sweep_d, err |-> 0]}
        /\ sweep_d' = IF leave THEN sweep_d ELSE sweep_d + DbStep
        /\ cpc' = IF leave THEN "phase2" ELSE "sweep"
        /\ sweep_db' = IF leave THEN <<IF found THEN sweep_d ELSE best_db>>
                       ELSE sweep_db
        /\ iters' = IF leave THEN 0 ELSE iters + 1
    /\ UNCHANGED <<nvars, kvars, tvars, gvars, pvars, ovars, dvars, lvars, clip, fs, replay_unused, diag, target_presses,
                   u_off, l_off, best_err, ref_n, direction, scale, warned,
                   scores>>

\* if target_presses is not None and len(best_events) != target_presses
TweakCheck ==
    /\ cpc = "phase2"
    /\ IF target_presses # <<>> /\ Len(best_events) # target_presses[1]
       THEN /\ direction' = IF Len(best_events) < target_presses[1]
                            THEN 1 ELSE -1
            /\ scale' = 10000
            /\ cpc' = "tweak"
       ELSE /\ cpc' = "dedup"
            /\ UNCHANGED <<direction, scale>>
    /\ iters' = 0
    /\ UNCHANGED <<nvars, kvars, tvars, gvars, pvars, ovars, dvars, lvars, rvars, target_presses, u_off, l_off,
                   best_db, best_events, best_err, ref_n, sweep_d, warned,
                   swept, sweep_db, scores, diag>>

\* the events are taken over, the offsets are not
KeepOffset(adopt, off, sc) == off

\* lines 242 and 245: the offset goes with the events that are taken over
AdoptOffset(adopt, off, sc) == IF adopt THEN Scaled(off, sc) ELSE off

\* one iteration of `for _ in range(4)`
Tweak ==
    /\ cpc = "tweak"
    /\ iters < MaxTweaks
    /\ \E sc \in {NextScale(scale, direction)} :
       \E r \in {_count_events(cache, clip, fs, Scaled(u_off, sc),
                               Scaled(l_off, sc), best_db, DefaultBlock)} :
       \E exact \in {Len(r.events) = target_presses[1]} :
       \E adopt \in {exact \/ score(r.events, target_presses)
                                < score(best_events, target_presses)} :
        /\ scale' = sc
        /\ cache' = r.cache
        /\ u_off' = AdoptOffset(adopt, u_off, sc)
        /\ l_off' = AdoptOffset(adopt, l_off, sc)
        /\ best_events' = IF adopt THEN r.events ELSE best_events
        /\ scores' = scores \cup {score(r.events, target_presses)}
        /\ cpc' = IF exact \/ iters + 1 = MaxTweaks THEN "dedup" ELSE "tweak"
        /\ iters' = IF exact \/ iters + 1 = MaxTweaks THEN 0 ELSE iters + 1
    /\ UNCHANGED <<nvars, kvars, tvars, gvars, pvars, ovars, dvars, lvars, clip, fs, replay_unused, diag, target_presses,
                   best_db, best_err, ref_n, sweep_d, direction, warned, swept,
                   sweep_db>>

\* the loop condition without the cap
DedupLoopNoCap == _has_duplicates(best_events, best_db, fs)

\* the condition of the while loop of phase 3
DedupLoop ==
    _has_duplicates(best_events, best_db, fs) /\ best_db < DbCap

\* a step of 1 ms
RaiseDebounceByOne(db) == db + 1

\* best_db += 2
RaiseDebounce(db) == db + DbStep

\* one iteration of `while _has_duplicates(...) and best_db < 60`
Dedup ==
    /\ cpc = "dedup"
    /\ DedupLoop
    /\ \E r \in {_count_events(cache, clip, fs, u_off, l_off,
                               RaiseDebounce(best_db), DefaultBlock)} :
        /\ cache' = r.cache
        /\ best_events' = r.events
        /\ scores' = scores \cup {score(r.events, target_presses)}
    /\ best_db' = RaiseDebounce(best_db)
    /\ iters' = iters + 1
    /\ UNCHANGED <<nvars, kvars, tvars, gvars, pvars, ovars, dvars, lvars, clip, fs, replay_unused, diag, cpc,
                   target_presses, u_off, l_off, best_err, ref_n, sweep_d,
                   direction, scale, warned, swept, sweep_db>>

Max(a, b) == IF a >= b THEN a ELSE b

\* pad = int(0.05 * fs)
pad(rate) == (5 * rate) \div 100

\* idle_mask after the loop of lines 255-258: the 0-based indices left True
idle_mask(n, ev, rate) ==
    {i \in 0..(n - 1) :
        \A k \in 1..Len(ev) :
            ~(Max(0, ev[k] - pad(rate)) <= i /\ i < Min(n, ev[k] + pad(rate)))}

\* min_gap before the division by fs: <<>> for inf, else <<diffs.min()>>
min_gap(ev) ==
    IF Len(ev) <= 1 THEN <<>>
    ELSE <<CHOOSE m \in {ev[k + 1] - ev[k] : k \in 1..(Len(ev) - 1)} :
              \A k \in 1..(Len(ev) - 1) : m <= ev[k + 1] - ev[k]>>

\* depth_med = median(baseline_vals - troughs), lines 270-277; the baseline
\* vector is the constant base
depth_med(raw, base) ==
    LET troughs == Troughs(raw)
    IN  median([i \in DOMAIN troughs |-> base - troughs[i]])

RECURSIVE GCD(_, _)
GCD(a, b) == IF b = 0 THEN Abs(a) ELSE GCD(b, a % Abs(b))

RECURSIVE GCDOf(_)
GCDOf(S) ==
    IF S = {} THEN 0
    ELSE LET x == CHOOSE x \in S : TRUE IN GCD(x, GCDOf(S \ {x}))

RECURSIVE SumOf(_)
\* the sum of the values of a function with a finite domain
SumOf(f) ==
    IF DOMAIN f = {} THEN 0
    ELSE LET x == CHOOSE x \in DOMAIN f : TRUE
         IN  f[x] + SumOf([y \in DOMAIN f \ {x} |-> f[y]])

\* depth_med > 3 * baseline_std, where baseline_std is the population
\* standard deviation of residual[idle_mask].  Both sides are divided by
\* a common unit g and squared, so the comparison is made on integers:
\* depth > 3 * sqrt(n * s2 - s1^2) / n
DepthOverNoise(raw, base, idle, depth) ==
    LET vals == {raw[i + 1] - base : i \in idle}
        g == Max(1, GCDOf(vals \cup {depth}))
        cnt == [v \in vals |-> Cardinality({i \in idle : raw[i + 1] - base = v})]
        n == Cardinality(idle)
        s1 == SumOf([v \in vals |-> (v \div g) * cnt[v]])
        s2 == SumOf([v \in vals |-> (v \div g) * (v \div g) * cnt[v]])
    IN  /\ depth > 0
        /\ (depth \div g) * (depth \div g) * n * n > 9 * (n * s2 - s1 * s1)

\* abs(len(best_events) - target_events) <= 0.1 * target_events
CountWithinTenth(ev, target) ==
    LET target_events == IF target # <<>> THEN target[1] ELSE Len(ev)
    IN  10 * Abs(Len(ev) - target_events) <= target_events

\* calib_ok without the test of the count
CalibOkNoCount(any, depth_ok, count_ok) == any /\ depth_ok

\* calib_ok = idle_mask.any() and depth_med > 3 * baseline_std
\*            and abs(len(best_events) - target_events) <= 0.1 * target_events
CalibOk(any, depth_ok, count_ok) == any /\ depth_ok /\ count_ok

\* lines 252-286: the diagnostics of the result
Diagnostics(raw, rate, ev, target) ==
    LET base == _rolling_baseline(raw, rate)
        idle == idle_mask(Len(raw), ev, rate)
        any == idle # {}
        depth == depth_med(raw, base)
        depth_ok == any /\ DepthOverNoise(raw, base, idle, depth)
        count_ok == CountWithinTenth(ev, target)
        calib_ok == CalibOk(any, depth_ok, count_ok)
    IN  [idle_any |-> any, depth_med |-> depth, depth_ok |-> depth_ok,
         count_ok |-> count_ok, min_gap |-> min_gap(ev),
         calib_ok |-> calib_ok, warned |-> ~calib_ok]

\* the while loop is left, the diagnostics are computed, 'calib_ok=False'
\* is logged if they fail, and CalibResult(...) is returned
CalibReturn ==
    /\ cpc = "dedup"
    /\ ~DedupLoop
    /\ cpc' = "done"
    /\ \E dg \in {Diagnostics(clip, fs, best_events, target_presses)} :
          diag' = dg
    /\ UNCHANGED <<nvars, kvars, tvars, gvars, pvars, ovars, dvars, lvars, rvars, target_presses, u_off, l_off,
                   best_db, best_events, best_err, ref_n, sweep_d, direction,
                   scale, iters, warned, swept, sweep_db, scores>>

NextCalib ==
    \/ CalibStart
    \/ SweepTarget
    \/ SweepNoTarget
    \/ TweakCheck
    \/ Tweak
    \/ Dedup
    \/ CalibReturn

SpecCalib == InitCalib /\ [][NextCalib]_vars

\* a longer recording at 7000 Hz: ten one-sample presses, the first two 99
\* samples apart and the others 256 apart, then silence
LongDips == {1, 100} \cup {321 + 256 * k : k \in 0..7}

LongClip == [i \in 1..2600 |-> IF (i - 1) \in LongDips THEN -10000 ELSE 0]

LongTargets == {<<>>, <<8>>, <<9>>, <<10>>, <<11>>}

InitCalibLong == CalibCall({LongClip}, {7000}, LongTargets)

SpecCalibLong == InitCalibLong /\ [][NextCalib]_vars

\* a clip with a press that falls in two samples, 0.0, -0.45, -1.0: the
\* first thresholds miss it and the thresholds scaled by 1.15 catch it
SoftClips == {[DipClip({1, 147}) EXCEPT ![147] = -4500]}

InitCalibSoft == CalibCall(CalibClips \cup SoftClips, CalibRates, Targets)

SpecCalibSoft == InitCalibSoft /\ [][NextCalib]_vars

-----------------------------------------------------------------------------
(* optimal_calibration: its own detector and calibrate.  The thresholds    *)
(* of the bisection are halves of halves of 0.55, so this section counts   *)
(* in units of 1e-4 / 16 = 6.25e-6: the six midpoints are integers.        *)

\* the clip in the units of this section
OptSamples(s) == [i \in DOMAIN s |-> 16 * s[i]]

\* _DEFAULT_BLOCK = 256
OptBlock == 256

\* block_sizes = (512, 256, 128, 64)
block_sizes == <<512, 256, 128, 64>>

\* for db in range(20, 181, 20)
OptDbFirst == 20
OptDbLast == 180
OptDbStep == 20

\* the loose thresholds of the debounce sweep: -0.05 and -0.80
LooseUpper == -8000
LooseLower == -128000

\* initial_gap = 0.30
initial_gap == 48000

\* low, high = -0.60, -0.05
OptLow == -96000
OptHigh == -8000

\* while high - low > 0.01
OptTol == 1600

\* np.linspace(0.25, 0.35, 5): 0.25, 0.275, 0.30, 0.325, 0.35
search_values == <<40000, 44000, 48000, 52000, 56000>>

\* int(math.ceil((debounce_ms / 1000) * fs)): the quotient is a binary64
\* number; 140 / 1000 is 0.14000000000000001, and its product with either
\* rate of CalibRates lies just above the integer, so the ceiling is one
\* more there.  For the other values of the sweep it is the exact ceiling.
OptRefractory(db, rate) ==
    Ceil(db * rate, 1000) + (IF db = 140 THEN 1 ELSE 0)

\* the locals of _detect_events that live across blocks
OptState(bias, prev, cooldown, armed, presses) ==
    [bias |-> bias, prev |-> prev, cooldown |-> cooldown, armed |-> armed,
     presses |-> presses]

\* if armed and len(block): bias = 0.995 * bias + 0.005 * block.mean(),
\* rounded to the unit
OptBias(st, blk) ==
    IF st.armed /\ Len(blk) > 0
    THEN Round(995 * st.bias * Len(blk) + 5 * SeqSum(blk), 1000 * Len(blk))
    ELSE st.bias

\* lines 41-55: the press index of the block, <<>> for None
OptPress(st, crossings) ==
    IF ~st.armed
    THEN IF st.cooldown >= Len(crossings) THEN <<>>
         ELSE FirstPress(crossings, st.cooldown)
    ELSE FirstPress(crossings, 0)

\* lines 42-64: armed, cooldown, presses and prev after the block
OptAfter(st, blk, bias, press, refractory) ==
    LET n == Len(blk)
        wait == ~st.armed /\ st.cooldown >= n
        armed == st.armed \/ ~wait
        cooldown == IF wait THEN st.cooldown - n ELSE st.cooldown
        cd == refractory - (n - press[1] - 1)
        prev == IF n > 0 THEN blk[n] ELSE st.prev
    IN  IF press = <<>>
        THEN OptState(bias, prev, cooldown, armed, st.presses)
        ELSE IF cd <= 0
             THEN OptState(bias, prev, 0, TRUE, st.presses + 1)
             ELSE OptState(bias, prev, cd, FALSE, st.presses + 1)

\* one iteration of `for start in range(0, len(samples), block_size)`
OptBlockStep(st, blk, upper, lower, refractory) ==
    LET bias == OptBias(st, blk)
    IN  OptAfter(st, blk, bias,
                 OptPress(st, Crossings(st.prev, blk, bias + upper,
                                        bias + lower)),
                 refractory)

RECURSIVE OptFrom(_, _, _, _, _, _, _)
OptFrom(s, start, bsz, upper, lower, refractory, st) ==
    IF start >= Len(s) THEN st
    ELSE OptFrom(s, start + bsz, bsz, upper, lower, refractory,
             OptBlockStep(st, Slice(s, start, bsz).data, upper, lower,
                          refractory))

\* the number of presses _detect_events returns
_detect_events(s, rate, upper, lower, db, bsz) ==
    OptFrom(s, 0, bsz, upper, lower, OptRefractory(db, rate),
            OptState(0, 0, 0, TRUE, 0)).presses

\* the locals of calibrate before its first statement
OptLocals(target) ==
    [pc |-> "start", target_presses |-> target, db |-> 0, best_db |-> 0,
     best_diff |-> <<>>, debounce |-> 0, gap |-> 0, low |-> 0, high |-> 0,
     best_upper |-> 0, best_count |-> 0, final_upper |-> 0,
     final_count |-> 0, best_overall_diff |-> 0, best_gap |-> 0,
     best_upper_val |-> 0, best_count_val |-> 0, g |-> 0,
     best_local_upper |-> 0, best_local_count |-> 0, best_local_diff |-> 0,
     lower |-> 0, size |-> 0, best_size |-> 0, iters |-> 0]

\* the clip, its rate and the target are the arguments of calibrate
InitOptimal ==
    /\ InitDetector
    /\ refractory_samples = 0
    /\ upper_offset > lower_offset
    /\ ListenIdle
    /\ clip \in CalibClips
    /\ fs \in CalibRates
    /\ debounce_ms = 0
    /\ blocksize = 0
    /\ cache = <<>>
    /\ events = <<>>
    /\ log = <<>>
    /\ hit = FALSE
    /\ nreplays = 0
    /\ CalibIdle
    /\ opt \in {OptLocals(t) : t \in 0..MaxTarget}
    /\ RestIdle

\* the samples argument, in the units of this section
OptClip == OptSamples(clip)

\* diff < best_diff, where best_diff may still be float("inf")
DiffLess(diff, best_diff) == best_diff = <<>> \/ diff < best_diff[1]

\* mid = (low + high) / 2.0
Mid(low, high) == (low + high) \div 2

\* lines 86-87 and the start of the for loop
OptStart ==
    /\ opt.pc = "start"
    /\ opt' = [opt EXCEPT !.pc = "sweep", !.db = OptDbFirst,
                          !.best_db = OptDbFirst, !.best_diff = <<>>,
                          !.iters = 0]
    /\ UNCHANGED <<nvars, kvars, tvars, gvars, pvars, dvars, lvars, rvars, cvars>>

\* one iteration of `for db in range(20, 181, 20)`; the loop is left on an
\* exact count or after 180
OptSweep ==
    /\ opt.pc = "sweep"
    /\ opt.db <= OptDbLast
    /\ \E cnt \in {_detect_events(OptClip, fs, LooseUpper, LooseLower, opt.db,
                                  OptBlock)} :
       \E diff \in {Abs(cnt - opt.target_presses)} :
       \E exact \in {cnt = opt.target_presses} :
       \E take \in {exact \/ DiffLess(diff, opt.best_diff)} :
       \E last \in {exact \/ opt.db + OptDbStep > OptDbLast} :
        opt' = [opt EXCEPT !.best_db = IF take THEN opt.db ELSE @,
                           !.best_diff = IF take THEN <<diff>> ELSE @,
                           !.db = IF last THEN @ ELSE @ + OptDbStep,
                           !.iters = IF last THEN 0 ELSE @ + 1,
                           !.pc = IF last THEN "search" ELSE "sweep"]
    /\ UNCHANGED <<nvars, kvars, tvars, gvars, pvars, dvars, lvars, rvars, cvars>>

\* lines 98-105: the first evaluation of the threshold search
OptSearch ==
    /\ opt.pc = "search"
    /\ \E cnt \in {_detect_events(OptClip, fs, OptHigh, OptHigh - initial_gap,
                                  opt.best_db, OptBlock)} :
        opt' = [opt EXCEPT !.debounce = opt.best_db, !.gap = initial_gap,
                           !.low = OptLow, !.high = OptHigh,
                           !.best_upper = OptHigh, !.best_count = cnt,
                           !.best_diff = <<Abs(cnt - opt.target_presses)>>,
                           !.iters = 0, !.pc = "bisect"]
    /\ UNCHANGED <<nvars, kvars, tvars, gvars, pvars, dvars, lvars, rvars, cvars>>

\* while high - low > 0.01
BisectLoop == opt.high - opt.low > OptTol

\* one iteration of the while loop of lines 106-121
OptBisect ==
    /\ opt.pc = "bisect"
    /\ BisectLoop
    /\ \E mid \in {Mid(opt.low, opt.high)} :
       \E cnt \in {_detect_events(OptClip, fs, mid, mid - opt.gap, opt.debounce,
                                  OptBlock)} :
       \E diff \in {Abs(cnt - opt.target_presses)} :
       \E exact \in {cnt = opt.target_presses} :
       \E less \in {DiffLess(diff, opt.best_diff)} :
        opt' = [opt EXCEPT !.best_diff = IF less THEN <<diff>> ELSE @,
                           !.best_upper = IF less \/ exact THEN mid ELSE @,
                           !.best_count = IF less \/ exact THEN cnt ELSE @,
                           !.high = IF cnt > opt.target_presses THEN mid
                                    ELSE @,
                           !.low = IF cnt < opt.target_presses THEN mid
                                   ELSE @,
                           !.iters = @ + 1,
                           !.pc = IF exact THEN "tune" ELSE "bisect"]
    /\ UNCHANGED <<nvars, kvars, tvars, gvars, pvars, dvars, lvars, rvars, cvars>>

\* the while loop of line 106 is left by its condition
OptBisectEnd ==
    /\ opt.pc = "bisect"
    /\ ~BisectLoop
    /\ opt' = [opt EXCEPT !.pc = "tune"]
    /\ UNCHANGED <<nvars, kvars, tvars, gvars, pvars, dvars, lvars, rvars, cvars>>

\* lines 123-132: gap fine-tuning is entered if the count is not the target
OptTune ==
    /\ opt.pc = "tune"
    /\ opt' = IF opt.best_count # opt.target_presses
              THEN [opt EXCEPT !.final_upper = opt.best_upper,
                               !.final_count = opt.best_count,
                               !.best_overall_diff = opt.best_diff[1],
                               !.best_gap = opt.gap,
                               !.best_upper_val = opt.best_upper,
                               !.best_count_val = opt.best_count,
                               !.g = 1, !.iters = 0, !.pc = "gap"]
              ELSE [opt EXCEPT !.final_upper = opt.best_upper,
                               !.final_count = opt.best_count,
                               !.iters = 0, !.pc = "sizes"]
    /\ UNCHANGED <<nvars, kvars, tvars, gvars, pvars, dvars, lvars, rvars, cvars>>

\* lines 134-140: the first evaluation for the gap search_values[g]
OptGap ==
    /\ opt.pc = "gap"
    /\ opt.g <= Len(search_values)
    /\ \E count \in {_detect_events(OptClip, fs, OptHigh,
                                    OptHigh - search_values[opt.g],
                                    opt.debounce, OptBlock)} :
        opt' = [opt EXCEPT !.low = OptLow, !.high = OptHigh,
                           !.best_local_upper = OptHigh,
                           !.best_local_count = count,
                           !.best_local_diff =
                               Abs(count - opt.target_presses),
                           !.iters = 0, !.pc = "gapbisect"]
    /\ UNCHANGED <<nvars, kvars, tvars, gvars, pvars, dvars, lvars, rvars, cvars>>

\* one iteration of the while loop of lines 141-157
OptGapBisect ==
    /\ opt.pc = "gapbisect"
    /\ BisectLoop
    /\ \E mid \in {Mid(opt.low, opt.high)} :
       \E c \in {_detect_events(OptClip, fs, mid, mid - search_values[opt.g],
                                opt.debounce, OptBlock)} :
       \E d \in {Abs(c - opt.target_presses)} :
       \E exact \in {c = opt.target_presses} :
       \E take \in {exact \/ d < opt.best_local_diff} :
        opt' = [opt EXCEPT !.best_local_diff = IF take THEN d ELSE @,
                           !.best_local_upper = IF take THEN mid ELSE @,
                           !.best_local_count = IF take THEN c ELSE @,
                           !.high = IF c > opt.target_presses THEN mid
                                    ELSE @,
                           !.low = IF c < opt.target_presses THEN mid
                                   ELSE @,
                           !.iters = @ + 1,
                           !.pc = IF exact THEN "gapend" ELSE "gapbisect"]
    /\ UNCHANGED <<nvars, kvars, tvars, gvars, pvars, dvars, lvars, rvars, cvars>>

\* the while loop of line 141 is left by its condition
OptGapBisectEnd ==
    /\ opt.pc = "gapbisect"
    /\ ~BisectLoop
    /\ opt' = [opt EXCEPT !.pc = "gapend"]
    /\ UNCHANGED <<nvars, kvars, tvars, gvars, pvars, dvars, lvars, rvars, cvars>>

\* lines 158-167: the best of this gap against the best overall; the for
\* loop is left when the difference is 0 or after the last gap
OptGapEnd ==
    /\ opt.pc = "gapend"
    /\ \E better \in {opt.best_local_diff < opt.best_overall_diff} :
       \E last \in {\/ better /\ opt.best_local_diff = 0
                    \/ opt.g = Len(search_values)} :
       \E best_gap \in {IF better THEN search_values[opt.g]
                        ELSE opt.best_gap} :
       \E best_upper_val \in {IF better THEN opt.best_local_upper
                              ELSE opt.best_upper_val} :
       \E best_count_val \in {IF better THEN opt.best_local_count
                              ELSE opt.best_count_val} :
        opt' = [opt EXCEPT !.best_overall_diff =
                               IF better THEN opt.best_local_diff ELSE @,
                           !.best_gap = best_gap,
                           !.best_upper_val = best_upper_val,
                           !.best_count_val = best_count_val,
                           !.gap = IF last THEN best_gap ELSE @,
                           !.final_upper = IF last THEN best_upper_val
                                           ELSE @,
                           !.final_count = IF last THEN best_count_val
                                           ELSE @,
                           !.g = IF last THEN @ ELSE @ + 1,
                           !.iters = 0,
                           !.pc = IF last THEN "sizes" ELSE "gap"]
    /\ UNCHANGED <<nvars, kvars, tvars, gvars, pvars, dvars, lvars, rvars, cvars>>

\* lines 169-173: lower, and the start of the block-size selection
OptSizes ==
    /\ opt.pc = "sizes"
    /\ opt' = [opt EXCEPT !.lower = opt.final_upper - opt.gap,
                          !.best_size = block_sizes[Len(block_sizes)],
                          !.best_diff = <<>>, !.size = 1, !.iters = 0,
                          !.pc = "size"]
    /\ UNCHANGED <<nvars, kvars, tvars, gvars, pvars, dvars, lvars, rvars, cvars>>

\* one iteration of `for size in block_sizes`; opt.size is the position of
\* size in the tuple
OptSize ==
    /\ opt.pc = "size"
    /\ opt.size <= Len(block_sizes)
    /\ \E cnt \in {_detect_events(OptClip, fs, opt.final_upper, opt.lower,
                                  opt.debounce, block_sizes[opt.size])} :
       \E diff \in {Abs(cnt - opt.target_presses)} :
       \E exact \in {cnt = opt.target_presses} :
       \E take \in {exact \/ DiffLess(diff, opt.best_diff)} :
       \E last \in {exact \/ opt.size = Len(block_sizes)} :
        opt' = [opt EXCEPT !.best_diff = IF DiffLess(diff, opt.best_diff)
                                         THEN <<diff>> ELSE @,
                           !.best_size = IF take THEN block_sizes[opt.size]
                                         ELSE @,
                           !.size = IF last THEN @ ELSE @ + 1,
                           !.iters = IF last THEN @ ELSE @ + 1,
                           !.pc = IF last THEN "return" ELSE "size"]
    /\ UNCHANGED <<nvars, kvars, tvars, gvars, pvars, dvars, lvars, rvars, cvars>>

\* lines 184-189: the dict is returned
OptReturn ==
    /\ opt.pc = "return"
    /\ opt' = [opt EXCEPT !.pc = "done"]
    /\ UNCHANGED <<nvars, kvars, tvars, gvars, pvars, dvars, lvars, rvars, cvars>>

NextOptimal ==
    \/ OptStart
    \/ OptSweep
    \/ OptSearch
    \/ OptBisect
    \/ OptBisectEnd
    \/ OptTune
    \/ OptGap
    \/ OptGapBisect
    \/ OptGapBisectEnd
    \/ OptGapEnd
    \/ OptSizes
    \/ OptSize
    \/ OptReturn

SpecOptimal == InitOptimal /\ [][NextOptimal]_vars

\* one call of either calibrator
InitEither == InitCalib \/ InitOptimal

NextEither == NextCalib \/ NextOptimal

SpecEither == InitEither /\ [][NextEither]_vars

-----------------------------------------------------------------------------
(* calibration.py: DetectorConfig, save_config and load_config.  A Python   *)
(* value is a record with its type; floats are in units of 1e-4.  A JSON   *)
(* text is kept as the tokens json.dump writes and json.load reads.        *)

PyNone == [type |-> "NoneType"]
PyInt(n) == [type |-> "int", value |-> n]
PyFloat(x) == [type |-> "float", value |-> x]
PyStr(s) == [type |-> "str", value |-> s]

\* the fields of the dataclass, lines 17-22
FieldNames ==
    {"upper_offset", "lower_offset", "samplerate", "blocksize",
     "debounce_ms", "device"}

\* DetectorConfig(): the defaults of lines 17-22
DetectorDefaults ==
    [upper_offset |-> PyFloat(-2000), lower_offset |-> PyFloat(-5000),
     samplerate |-> PyInt(44100), blocksize |-> PyInt(256),
     debounce_ms |-> PyInt(40), device |-> PyNone]

\* DetectorConfig(**data): the given fields, defaults for the others
DetectorConfig(data) ==
    [f \in FieldNames |->
        IF f \in DOMAIN data THEN data[f] ELSE DetectorDefaults[f]]

\* == of two Python values: numbers compare by value, int against float too
PyEq(a, b) ==
    IF a.type \in {"int", "float"} /\ b.type \in {"int", "float"}
    THEN (IF a.type = "int" THEN 10000 * a.value ELSE a.value)
         = (IF b.type = "int" THEN 10000 * b.value ELSE b.value)
    ELSE a = b

\* the generated __eq__ of the dataclass: the tuples of fields are equal
ConfigEq(a, b) == \A f \in FieldNames : PyEq(a[f], b[f])

\* every value written with str(): None becomes the string "None"
dumpsAsStr(v) ==
    IF v.type = "NoneType" THEN [kind |-> "string", text |-> "None"]
    ELSE IF v.type = "str" THEN [kind |-> "string", text |-> v.value]
    ELSE [kind |-> "number", real |-> v.type = "float", value |-> v.value]

\* json.dump of one value: null, a string, an integer literal or a literal
\* with a fraction (float.__repr__, which json.load reads back exactly)
dumps(v) ==
    IF v.type = "NoneType" THEN [kind |-> "null"]
    ELSE IF v.type = "str" THEN [kind |-> "string", text |-> v.value]
    ELSE [kind |-> "number", real |-> v.type = "float", value |-> v.value]

\* json.load of one token
loads(t) ==
    IF t.kind = "null" THEN PyNone
    ELSE IF t.kind = "string" THEN PyStr(t.text)
    ELSE IF t.real THEN PyFloat(t.value)
    ELSE PyInt(t.value)

\* json.dump(asdict(config), f): the text of the file
DumpConfig(config) ==
    [kind |-> "object", members |-> [f \in FieldNames |-> dumps(config[f])]]

\* os.path.dirname(path)
dirname(path) == path.dir

\* DetectorConfig(**data) raises TypeError for a keyword it does not know
AcceptsKeys(keys) == keys \subseteq FieldNames

\* the object json.load returns, as the keyword arguments
LoadedData(text) == [k \in DOMAIN text.members |-> loads(text.members[k])]

\* the `try` body of load_config, lines 44-46: open, json.load and
\* DetectorConfig(**data); exc is <<>> or the exception raised
TryLoad(file) ==
    IF file.kind = "missing" THEN [exc |-> <<"FileNotFoundError">>]
    ELSE IF file.kind = "unreadable" THEN [exc |-> <<"PermissionError">>]
    ELSE IF file.kind = "invalid" THEN [exc |-> <<"JSONDecodeError">>]
    ELSE IF file.kind # "object" THEN [exc |-> <<"TypeError">>]
    ELSE IF ~AcceptsKeys(DOMAIN file.members) THEN [exc |-> <<"TypeError">>]
    ELSE [exc |-> <<>>, value |-> DetectorConfig(LoadedData(file))]

\* except OSError: only the failures of open
CatchesOSError(e) == e \in {"FileNotFoundError", "PermissionError"}

\* except Exception: every exception the body can raise derives from it
Catches(e) ==
    e \in {"FileNotFoundError", "PermissionError", "JSONDecodeError",
           "TypeError"}

\* load_config(path) on the file as it is: what it returns, or the
\* exception that leaves it
load_config(file) ==
    LET r == TryLoad(file)
    IN  IF r.exc = <<>> THEN [raised |-> <<>>, result |-> <<r.value>>]
        ELSE IF Catches(r.exc[1])
             THEN [raised |-> <<>>, result |-> <<DetectorDefaults>>]
             ELSE [raised |-> r.exc, result |-> <<>>]

\* valid configurations
Configs ==
    {[upper_offset |-> u, lower_offset |-> PyFloat(-6000), samplerate |-> sr,
      blocksize |-> PyInt(128), debounce_ms |-> PyInt(db), device |-> dev] :
        u \in {PyFloat(-1000), PyInt(-1)},
        sr \in {PyInt(8000)},
        db \in {50},
        dev \in {PyNone, PyStr("Mic")}} \cup {DetectorDefaults}

\* what a file that save_config did not write may be: absent, unreadable,
\* not JSON, JSON that is not an object, an object with an unknown key, and
\* an object with some of the fields
ForeignFiles ==
    {[kind |-> "missing"], [kind |-> "unreadable"], [kind |-> "invalid"],
     [kind |-> "array"],
     [kind |-> "object",
      members |-> [k \in {"upper_offset", "gain"} |->
                      [kind |-> "number", real |-> TRUE, value |-> -1000]]],
     [kind |-> "object",
      members |-> [k \in {"debounce_ms"} |->
                      [kind |-> "number", real |-> FALSE, value |-> 50]]]}

InitPersist ==
    /\ InitDetector
    /\ ListenIdle
    /\ ReplayIdle
    /\ CalibIdle
    /\ OptIdle
    /\ RestIdle

\* save_config(config, path): os.makedirs("") raises FileNotFoundError, so
\* nothing is written for a bare file name
SaveConfig ==
    /\ Len(persist.ops) < MaxOps
    /\ \E config \in Configs, path \in Paths :
        persist' =
            IF dirname(path) = ""
            THEN [persist EXCEPT !.ops = Append(@,
                     [op |-> "save", path |-> path, config |-> config,
                      raised |-> <<"FileNotFoundError">>])]
            ELSE [files |-> [persist.files EXCEPT ![path] =
                                 DumpConfig(config)],
                  ops |-> Append(persist.ops,
                     [op |-> "save", path |-> path, config |-> config,
                      raised |-> <<>>])]
    /\ UNCHANGED <<nvars, kvars, tvars, gvars, dvars, lvars, rvars, cvars, ovars>>

\* load_config(path); seen is the file it found
LoadConfig ==
    /\ Len(persist.ops) < MaxOps
    /\ \E path \in Paths :
        persist' = [persist EXCEPT !.ops = Append(@,
                       [op |-> "load", path |-> path,
                        seen |-> persist.files[path],
                        result |-> load_config(persist.files[path]).result,
                        raised |-> load_config(persist.files[path]).raised])]
    /\ UNCHANGED <<nvars, kvars, tvars, gvars, dvars, lvars, rvars, cvars, ovars>>

\* something else changes or removes a file
ForeignWrite ==
    /\ Len(persist.ops) < MaxOps
    /\ \E path \in Paths, file \in ForeignFiles :
        persist' = [files |-> [persist.files EXCEPT ![path] = file],
                    ops |-> Append(persist.ops,
                               [op |-> "foreign", path |-> path])]
    /\ UNCHANGED <<nvars, kvars, tvars, gvars, dvars, lvars, rvars, cvars, ovars>>

NextPersist == SaveConfig \/ LoadConfig \/ ForeignWrite

SpecPersist == InitPersist /\ [][NextPersist]_vars

-----------------------------------------------------------------------------
(* myproject/kb_gui.py and myproject/scan_engine.py: the keyboard and the  *)
(* Scanner are one record s.  A layout is a sequence of pages, a page a    *)
(* sequence of rows, a row a sequence of keys, a key its action ("key" is  *)
(* a key that is sent to on_key).  Indices are Python's, from 0.  Beside   *)
(* the attributes of the two objects s keeps what the properties read:     *)
(* activated, the keys _activate_highlighted has dispatched on; calls, the *)
(* number of on_press calls; raised, the exception of the last call;       *)
(* before, what the last on_press found; ticks, the ticks since (up to 2). *)

Layouts ==
    {<< << <<"key", "reset_scan_row">>, <<"key", "key">> >> >>,
     << << <<"key", "key">>, <<"key", "reset_scan_row">> >> >>,
     << << <<"key", "page_next">>, <<"key">>, <<"key">> >>,
        << <<"page_prev", "key">> >> >>}

RECURSIVE Concat(_)
Concat(rows) ==
    IF rows = <<>> THEN <<>> ELSE Head(rows) \o Concat(Tail(rows))

\* keyboard.key_widgets of the rendered page: the keys of its rows in order
key_widgets(s) == Concat(s.layout[s.current_page + 1])

\* keyboard.row_start_indices: the index of the first key of each row
row_start_indices(s) ==
    LET page == s.layout[s.current_page + 1]
    IN  [r \in 1..Len(page) |-> Len(Concat(SubSeq(page, 1, r - 1)))]

\* keyboard.row_indices: the row of each key
row_indices(s) ==
    LET page == s.layout[s.current_page + 1]
    IN  Concat([r \in 1..Len(page) |-> [k \in 1..Len(page[r]) |-> r - 1]])

\* render_page, lines 156-196: the widgets follow current_page, the
\* highlight goes to key 0 and no row is highlighted
render_page(s) ==
    [s EXCEPT !.highlight_index = 0, !.highlight_row_index = <<>>]

next_page(s) ==
    IF s.current_page < Len(s.layout) - 1
    THEN render_page([s EXCEPT !.current_page = @ + 1])
    ELSE s

prev_page(s) ==
    IF s.current_page > 0
    THEN render_page([s EXCEPT !.current_page = @ - 1])
    ELSE s

row_start_for_index(s, index) ==
    row_start_indices(s)[row_indices(s)[index + 1] + 1]

\* press_highlighted: the highlighted key is handed to on_key
press_highlighted(s) ==
    [s EXCEPT !.pressed = Append(@, [page |-> s.current_page,
                                     index |-> s.highlight_index])]

\* Scanner(keyboard, reset_after_press, row_column_scan) on a keyboard that
\* has rendered its first page
Scanner(layout, reset_after_press, row_column_scan) ==
    [layout |-> layout, current_page |-> 0, highlight_index |-> 0,
     highlight_row_index |-> <<>>, pressed |-> <<>>,
     reset_after_press |-> reset_after_press,
     row_column_scan |-> row_column_scan,
     after_id |-> <<>>, pending |-> 0, live |-> FALSE, stopped |-> FALSE,
     stops |-> 0,
     phase |-> IF row_column_scan THEN "ROW" ELSE "KEY",
     row_cursor |-> 0, key_cursor |-> 0, current_row |-> 0,
     activated |-> <<>>, calls |-> 0, raised |-> <<>>,
     before |-> <<>>, ticks |-> 0]

\* root.after(dwell_ms, self._tick): one more callback is pending, and
\* _after_id is its id (live until it fires or is cancelled)
after(s) ==
    [s EXCEPT !.after_id = <<"id">>, !.pending = @ + 1, !.live = TRUE]

\* root.after_cancel(self._after_id): nothing happens when the callback of
\* that id has fired already
after_cancel(s) ==
    [s EXCEPT !.pending = IF s.live THEN @ - 1 ELSE @, !.live = FALSE]

\* stop, lines 36-39
stop(s) ==
    IF s.after_id # <<>> THEN [after_cancel(s) EXCEPT !.after_id = <<>>]
    ELSE s

\* the key after idx on the page, as in linear scanning
next_on_page(s, idx) == (idx + 1) % Len(key_widgets(s))

\* lines 67-73: the key after idx, or the first key of the selected row when
\* idx is the last key of the page or of the row
next_in_row(s, idx) ==
    LET next_idx == idx + 1
    IN  IF \/ next_idx >= Len(key_widgets(s))
           \/ row_indices(s)[next_idx + 1] # s.current_row
        THEN row_start_indices(s)[s.current_row + 1]
        ELSE next_idx

\* _tick, lines 41-75; the subscript of line 45 raises IndexError when the
\* cursor is past the keys of the page
_tick(s) ==
    LET n == Len(key_widgets(s))
        rows == Len(row_start_indices(s))
    IN  IF ~s.row_column_scan
        THEN IF s.key_cursor >= n
             THEN [s EXCEPT !.highlight_index = s.key_cursor,
                            !.raised = <<"IndexError">>]
             ELSE after([s EXCEPT !.highlight_index = s.key_cursor,
                                  !.key_cursor = (s.key_cursor + 1) % n])
        ELSE IF s.phase = "ROW"
        THEN LET row_idx == s.row_cursor % rows
             IN  after([s EXCEPT
                     !.highlight_index = row_start_indices(s)[row_idx + 1],
                     !.highlight_row_index = <<row_idx>>,
                     !.row_cursor = (row_idx + 1) % rows])
        ELSE LET idx == s.key_cursor
                 next_idx == idx + 1
             IN  IF idx >= n
                 THEN [s EXCEPT !.highlight_row_index = <<>>,
                                !.highlight_index = idx,
                                !.raised = <<"IndexError">>]
                 ELSE after([s EXCEPT
                         !.highlight_row_index = <<>>,
                         !.highlight_index = idx,
                         !.key_cursor = next_in_row(s, idx)])

\* _activate_highlighted, lines 80-102: the state it leaves and the action
\* it returns; <<>> for the action when line 87 raised IndexError
_activate_highlighted(s) ==
    IF s.highlight_index >= Len(key_widgets(s))
    THEN [s |-> [s EXCEPT !.raised = <<"IndexError">>], action |-> <<>>]
    ELSE LET action == key_widgets(s)[s.highlight_index + 1]
             start == row_start_for_index(s, s.highlight_index)
             s1 == [s EXCEPT !.activated =
                        Append(@, [page |-> s.current_page,
                                   index |-> s.highlight_index,
                                   action |-> action])]
         IN  [action |-> <<action>>,
              s |-> CASE action = "page_next" -> next_page(s1)
                      [] action = "page_prev" -> prev_page(s1)
                      [] action = "reset_scan_row" ->
                            [s1 EXCEPT !.highlight_index = start,
                                       !.key_cursor = start]
                      [] OTHER -> press_highlighted(s1)]

\* the row a press in the ROW phase selects, with the cursor one row on
SelectedRowAtCursor(s) == s.row_cursor % Len(row_start_indices(s))

\* line 106: the cursor is one past the row that is highlighted
SelectedRow(s) == (s.row_cursor - 1) % Len(row_start_indices(s))

\* no press resets the scan
GlobalResetNever(s, action) == FALSE

\* lines 115 and 124: the condition of the global reset
GlobalReset(s, action) == s.reset_after_press /\ action # "reset_scan_row"

\* lines 104-127 of on_press
Dispatch(s) ==
    IF s.row_column_scan
    THEN IF s.phase = "ROW"
         THEN LET row_idx == SelectedRow(s)
                  start == row_start_indices(s)[row_idx + 1]
              IN  [s EXCEPT !.phase = "KEY", !.current_row = row_idx,
                            !.key_cursor = start,
                            !.highlight_row_index = <<>>,
                            !.highlight_index = start]
         ELSE LET a == _activate_highlighted(s)
              IN  IF a.action = <<>> THEN a.s
                  ELSE LET s1 == IF GlobalReset(s, a.action[1])
                                 THEN [a.s EXCEPT !.row_cursor = 0]
                                 ELSE a.s
                           s2 == [s1 EXCEPT !.phase = "ROW"]
                       IN  IF s2.row_cursor >= Len(row_start_indices(s2))
                           THEN [s2 EXCEPT !.raised = <<"IndexError">>]
                           ELSE [s2 EXCEPT
                                   !.highlight_index =
                                       row_start_indices(s2)[s2.row_cursor + 1],
                                   !.highlight_row_index = <<s2.row_cursor>>]
    ELSE LET a == _activate_highlighted(s)
         IN  IF a.action = <<>> THEN a.s
             ELSE IF GlobalReset(s, a.action[1])
             THEN [a.s EXCEPT !.highlight_index = 0, !.key_cursor = 0]
             ELSE a.s

\* on_press, lines 77-132: the pending tick is cancelled as stop does (lines
\* 129-131) and _tick is called
\* at once, unless an exception has left the method before
on_press(s) ==
    LET s1 == Dispatch([s EXCEPT !.calls = @ + 1, !.raised = <<>>])
    IN  IF s1.raised # <<>> THEN s1
        ELSE _tick(stop(s1))

\* what on_press finds: the highlight, the phase, and the highlighted key
\* with the first key of its row ("none" when the highlight is past the page)
Snapshot(s) ==
    LET on_page == s.highlight_index < Len(key_widgets(s))
    IN  [highlight_index |-> s.highlight_index,
         highlight_row_index |-> s.highlight_row_index,
         phase |-> s.phase, current_page |-> s.current_page,
         row_cursor |-> s.row_cursor,
         key |-> IF on_page THEN key_widgets(s)[s.highlight_index + 1]
                 ELSE "none",
         row_start |-> IF on_page
                       THEN row_start_for_index(s, s.highlight_index)
                       ELSE 0,
         activated |-> Len(s.activated), pressed |-> Len(s.pressed)]

\* one call of scanner.on_press()
Press(s) == [on_press(s) EXCEPT !.before = <<Snapshot(s)>>, !.ticks = 0]

\* the pending callback of root.after runs _tick
Tick(s) ==
    [_tick([s EXCEPT !.pending = @ - 1, !.live = FALSE, !.raised = <<>>])
        EXCEPT !.ticks = IF @ < 2 THEN @ + 1 ELSE @]

\* start, lines 32-34
start(s) == IF s.after_id = <<>> THEN _tick([s EXCEPT !.raised = <<>>]) ELSE s

MaxPress == 3        \* calls of on_press in one run

\* a Scanner is constructed, as the tests do: any layout, any options
InitScan ==
    /\ InitDetector
    /\ ListenIdle
    /\ ReplayIdle
    /\ CalibIdle
    /\ OptIdle
    /\ PersistIdle
    /\ OthersIdle
    /\ MainIdle
    /\ \E layout \in Layouts, reset_after_press \in BOOLEAN,
          row_column_scan \in BOOLEAN :
            scanner = Scanner(layout, reset_after_press, row_column_scan)

\* scanner.start()
ScanStart ==
    /\ scanner.after_id = <<>>
    /\ scanner' = [start(scanner) EXCEPT
                       !.stopped = FALSE,
                       !.ticks = IF @ < 2 THEN @ + 1 ELSE @]
    /\ UNCHANGED <<nvars, kvars, tvars, dvars, lvars, rvars, cvars, ovars, pvars, press_queue>>

\* the pending callback of root.after fires
ScanTick ==
    /\ scanner.pending > 0
    /\ scanner' = Tick(scanner)
    /\ UNCHANGED <<nvars, kvars, tvars, dvars, lvars, rvars, cvars, ovars, pvars, press_queue>>

\* scanner.on_press()
ScanPress ==
    /\ scanner.calls < MaxPress
    /\ scanner' = Press(scanner)
    /\ UNCHANGED <<nvars, kvars, tvars, dvars, lvars, rvars, cvars, ovars, pvars, press_queue>>

NextScan == ScanStart \/ ScanTick \/ ScanPress

SpecScan == InitScan /\ [][NextScan]_vars

MaxStops == 1        \* calls of stop in one run

\* scanner.stop()
ScanStop ==
    /\ scanner.stops < MaxStops
    /\ scanner' = [stop(scanner) EXCEPT !.stopped = TRUE, !.stops = @ + 1]
    /\ UNCHANGED <<nvars, kvars, tvars, dvars, lvars, rvars, cvars, ovars, pvars, press_queue>>

NextStop == ScanStart \/ ScanTick \/ ScanPress \/ ScanStop

\* the scanner with its four entry points
SpecStop == InitScan /\ [][NextStop]_vars

-----------------------------------------------------------------------------
(* __main__.py of switch_interface (lines 73-96) and of myproject (lines   *)
(* 19-35): listen's thread puts one item in press_queue for each press,    *)
(* and _pump_queue, a callback of the GUI loop like _tick, calls           *)
(* scanner.on_press.  press_queue.items is the length of the queue, put    *)
(* the number of items ever put, pump the position of _pump_queue.         *)

MaxPut == 2          \* presses the audio thread detects in one run

\* both programs construct the Scanner with reset_after_press at its default
\* and start it; only switch_interface has the --row-column option
InitMain ==
    /\ InitDetector
    /\ ListenIdle
    /\ ReplayIdle
    /\ CalibIdle
    /\ OptIdle
    /\ PersistIdle
    /\ OthersIdle
    /\ \E layout \in Layouts, program \in {"switch_interface", "myproject"},
          row_column_scan \in BOOLEAN :
            /\ program = "myproject" => ~row_column_scan
            /\ scanner = start(Scanner(layout, TRUE, row_column_scan))
            /\ press_queue = [program |-> program, items |-> 0, put |-> 0,
                              pump |-> "scheduled"]

\* _on_switch, on the audio thread: press_queue.put(None)
OnSwitch ==
    /\ press_queue.pump # "none"
    /\ press_queue.put < MaxPut
    /\ press_queue' = [press_queue EXCEPT !.items = @ + 1, !.put = @ + 1]
    /\ UNCHANGED <<nvars, kvars, tvars, dvars, lvars, rvars, cvars, ovars, pvars, scanner>>

\* the GUI loop runs the callback of root.after(10, _pump_queue)
PumpQueue ==
    /\ press_queue.pump = "scheduled"
    /\ press_queue' = [press_queue EXCEPT !.pump = "loop"]
    /\ UNCHANGED <<nvars, kvars, tvars, dvars, lvars, rvars, cvars, ovars, pvars, scanner>>

\* switch_interface, lines 82-87: get_nowait takes one item and on_press is
\* called; an exception of on_press leaves _pump_queue before line 88
PumpGet ==
    /\ press_queue.pump = "loop"
    /\ press_queue.program = "switch_interface"
    /\ press_queue.items > 0
    /\ scanner' = Press(scanner)
    /\ press_queue' =
          [press_queue EXCEPT !.items = @ - 1,
                              !.pump = IF scanner'.raised # <<>>
                                       THEN "raised" ELSE @]
    /\ UNCHANGED <<nvars, kvars, tvars, dvars, lvars, rvars, cvars, ovars, pvars>>

\* myproject, lines 30-31: the queue is tested with empty() and on_press is
\* called; nothing is taken from the queue
PumpNotEmpty ==
    /\ press_queue.pump = "loop"
    /\ press_queue.program = "myproject"
    /\ press_queue.items > 0
    /\ scanner.calls < MaxPress
    /\ scanner' = Press(scanner)
    /\ press_queue' =
          [press_queue EXCEPT !.pump = IF scanner'.raised # <<>>
                                       THEN "raised" ELSE @]
    /\ UNCHANGED <<nvars, kvars, tvars, dvars, lvars, rvars, cvars, ovars, pvars>>

\* the queue is empty: the loop ends and _pump_queue schedules itself again
PumpEmpty ==
    /\ press_queue.pump = "loop"
    /\ press_queue.items = 0
    /\ press_queue' = [press_queue EXCEPT !.pump = "scheduled"]
    /\ UNCHANGED <<nvars, kvars, tvars, dvars, lvars, rvars, cvars, ovars, pvars, scanner>>

\* the GUI loop runs the pending _tick; it runs one callback at a time
MainTick ==
    /\ press_queue.pump \in {"scheduled", "raised"}
    /\ scanner.pending > 0
    /\ scanner' = Tick(scanner)
    /\ UNCHANGED <<nvars, kvars, tvars, dvars, lvars, rvars, cvars, ovars, pvars, press_queue>>

NextMain ==
    OnSwitch \/ PumpQueue \/ PumpGet \/ PumpNotEmpty \/ PumpEmpty \/ MainTick

SpecMain == InitMain /\ [][NextMain]_vars

-----------------------------------------------------------------------------
(* detect_edges of detection.py and the loop body of _detect_events of     *)
(* optimal_calibration.py, fed the same blocks of one clip from their      *)
(* fresh states, with the offsets and the refractory period of the stream. *)
(* twin.sim counts in the units of the optimal_calibration section.        *)

MaxTwinLen == 4      \* longest clip fed to the two detectors
MaxTwinBlock == 3    \* largest block size

\* released (0.0) and pressed (-1.0) samples
TwinClips ==
    UNION {[1..n -> {0, -10000}] : n \in 1..MaxTwinLen}

InitTwin ==
    /\ InitDetector
    /\ ListenIdle
    /\ ReplayIdle
    /\ CalibIdle
    /\ OptIdle
    /\ PersistIdle
    /\ ScanIdle
    /\ MainIdle
    /\ ControllerIdle
    /\ PredictorIdle
    /\ \E samples \in TwinClips, block_size \in 1..MaxTwinBlock :
          twin = [samples |-> samples, block_size |-> block_size, pos |-> 0,
                  prod |-> EdgeState(TRUE, 0, 0, 0),
                  sim |-> OptState(0, 0, 0, TRUE, 0),
                  prod_press |-> <<>>, sim_press |-> <<>>]

\* the next block goes through both: one detect_edges call, and one
\* iteration of the loop of _detect_events (lines 31-64)
TwinBlock ==
    /\ twin.pos >= 0
    /\ twin.pos < Len(twin.samples)
    /\ LET blk == Slice(twin.samples, twin.pos, twin.block_size)
           res == detect_edges(blk, twin.prod, upper_offset, lower_offset,
                               refractory_samples)
           sim == OptBlockStep(twin.sim, OptSamples(blk.data),
                               16 * upper_offset, 16 * lower_offset,
                               refractory_samples)
       IN  twin' = [twin EXCEPT
               !.pos = @ + twin.block_size,
               !.prod = res.state,
               !.sim = sim,
               !.prod_press = Append(@, res.press_index # <<>>),
               !.sim_press = Append(@, sim.presses > twin.sim.presses)]
    /\ UNCHANGED <<dvars, lvars, rvars, cvars, ovars, pvars, gvars, kvars,
                   nvars>>

NextTwin == TwinBlock

SpecTwin == InitTwin /\ [][NextTwin]_vars

-----------------------------------------------------------------------------
(* modifier_state.py and pc_control.py.  An OS key is its name, an Optional *)
(* key <<>> or <<name>>.  controller.state is the ModifierState, sent the   *)
(* events handed to the OS keyboard, calls what each call found and left.   *)

MaxKeys == 3         \* calls on one ModifierState or PCController

\* ModifierState(): the defaults of lines 7-10
ModifierState ==
    [caps_on |-> FALSE, shift_armed |-> FALSE, _latched |-> <<>>,
     _toggles |-> {}]

\* toggle that leaves caps_on alone
toggleNoCaps(ms, key) ==
    IF key \in ms._toggles
    THEN [ms EXCEPT !._toggles = @ \ {key}]
    ELSE [ms EXCEPT !._toggles = @ \cup {key}]

\* toggle, lines 12-23
toggle(ms, key) ==
    IF key \in ms._toggles
    THEN [ms EXCEPT !._toggles = @ \ {key},
                    !.caps_on = IF key = "caps_lock" THEN FALSE ELSE @]
    ELSE [ms EXCEPT !._toggles = @ \cup {key},
                    !.caps_on = IF key = "caps_lock" THEN TRUE ELSE @]

\* latch, lines 25-35
latch(ms, key) ==
    IF ms._latched = <<key>>
    THEN [ms EXCEPT !.shift_armed = FALSE, !._latched = <<>>]
    ELSE [ms EXCEPT !._latched = <<key>>,
                    !.shift_armed = IF key = "shift" THEN TRUE
                                    ELSE IF ms._latched # <<>> THEN FALSE
                                    ELSE @]

\* consume_latch, lines 37-43: the state it leaves; it returns ms._latched
consume_latch(ms) ==
    [ms EXCEPT !._latched = <<>>,
               !.shift_armed = IF ms._latched = <<"shift">> THEN FALSE ELSE @]

OSKeys == {"shift", "ctrl", "caps_lock"}

\* one call on the ModifierState, with the state before and after it
Call(op, key, ms) ==
    controller' = [controller EXCEPT
        !.state = ms,
        !.calls = Append(@, [op |-> op, key |-> key,
                             before |-> controller.state, after |-> ms,
                             from |-> Len(controller.sent)])]

InitModifier ==
    /\ InitDetector
    /\ ListenIdle
    /\ ReplayIdle
    /\ CalibIdle
    /\ OptIdle
    /\ PersistIdle
    /\ ScanIdle
    /\ MainIdle
    /\ TwinIdle
    /\ PredictorIdle
    /\ controller = [state |-> ModifierState, sent |-> <<>>, calls |-> <<>>]

Toggle ==
    /\ Len(controller.calls) < MaxKeys
    /\ \E key \in OSKeys : Call("toggle", key, toggle(controller.state, key))
    /\ UNCHANGED <<dvars, lvars, rvars, cvars, ovars, pvars, gvars, tvars,
                   nvars>>

Latch ==
    /\ Len(controller.calls) < MaxKeys
    /\ \E key \in OSKeys : Call("latch", key, latch(controller.state, key))
    /\ UNCHANGED <<dvars, lvars, rvars, cvars, ovars, pvars, gvars, tvars,
                   nvars>>

ConsumeLatch ==
    /\ Len(controller.calls) < MaxKeys
    /\ Call("consume_latch", "", consume_latch(controller.state))
    /\ UNCHANGED <<dvars, lvars, rvars, cvars, ovars, pvars, gvars, tvars,
                   nvars>>

NextModifier == Toggle \/ Latch \/ ConsumeLatch

SpecModifier == InitModifier /\ [][NextModifier]_vars

\* the keys of a layout: action (<<>> for None), mode and label
GuiKeys ==
    {[action |-> <<"shift">>, mode |-> "latch", label |-> "shift"],
     [action |-> <<"ctrl">>, mode |-> "latch", label |-> "ctrl"],
     [action |-> <<"caps_lock">>, mode |-> "toggle", label |-> "caps"],
     [action |-> <<>>, mode |-> "tap", label |-> "a"],
     [action |-> <<"enter">>, mode |-> "tap", label |-> "enter"],
     [action |-> <<"predict_letter">>, mode |-> "tap", label |-> "e"],
     [action |-> <<"predict_word">>, mode |-> "tap", label |-> ""]}

\* Action.is_virtual, key_types.py lines 46-53
is_virtual(action) ==
    action \in {"page_next", "page_prev", "reset_scan_row", "predict_word",
                "predict_letter"}

\* lines 37-39: os_key, <<>> for None
os_key(key) ==
    IF key.action # <<>> /\ ~is_virtual(key.action[1]) THEN key.action
    ELSE <<>>

\* send_payload, lines 63-67
send_payload(key) ==
    IF os_key(key) # <<>>
    THEN <<[ev |-> "press", key |-> os_key(key)[1]],
           [ev |-> "release", key |-> os_key(key)[1]]>>
    ELSE <<[ev |-> "type", key |-> key.label]>>

\* a predictive key goes through the tap branch like any other key
PredictiveNever(key) == FALSE

\* lines 28 and 32: the key is a predictive-text key
Predictive(key) ==
    key.action \in {<<"predict_word">>, <<"predict_letter">>}

\* on_key, lines 19-75: the ModifierState it leaves and the events it sends
on_key(ms, key) ==
    IF Predictive(key)
    THEN [state |-> ms,
          sent |-> IF key.label = "" THEN <<>>
                   ELSE <<[ev |-> "type",
                           key |-> IF key.action = <<"predict_word">>
                                   THEN key.label \o " " ELSE key.label]>>]
    ELSE IF key.mode = "toggle" /\ os_key(key) # <<>>
    THEN LET ms1 == toggle(ms, os_key(key)[1])
         IN  [state |-> ms1,
              sent |-> <<[ev |-> IF os_key(key)[1] \in ms1._toggles
                                 THEN "press" ELSE "release",
                          key |-> os_key(key)[1]]>>]
    ELSE IF key.mode = "latch" /\ os_key(key) # <<>>
    THEN LET ms1 == latch(ms, os_key(key)[1])
         IN  [state |-> ms1,
              sent |-> (IF ms._latched # <<>>
                        THEN <<[ev |-> "release", key |-> ms._latched[1]]>>
                        ELSE <<>>)
                       \o (IF ms1._latched # <<>>
                           THEN <<[ev |-> "press", key |-> ms1._latched[1]]>>
                           ELSE <<[ev |-> "release",
                                   key |-> os_key(key)[1]]>>)]
    ELSE [state |-> consume_latch(ms),
          sent |-> IF ms._latched # <<>>
                   THEN <<[ev |-> "press", key |-> ms._latched[1]]>>
                        \o send_payload(key)
                        \o <<[ev |-> "release", key |-> ms._latched[1]]>>
                   ELSE send_payload(key)]

\* PCController(kb, state) with a fresh ModifierState
InitController == InitModifier

\* one key of the layout is handed to on_key
OnKey ==
    /\ Len(controller.calls) < MaxKeys
    /\ \E key \in GuiKeys :
        \E r \in {on_key(controller.state, key)} :
          controller' =
              [state |-> r.state,
               sent |-> controller.sent \o r.sent,
               calls |-> Append(controller.calls,
                            [op |-> "on_key", key |-> key,
                             before |-> controller.state, after |-> r.state,
                             from |-> Len(controller.sent)])]
    /\ UNCHANGED <<dvars, lvars, rvars, cvars, ovars, pvars, gvars, tvars,
                   nvars>>

NextController == OnKey

SpecController == InitController /\ [][NextController]_vars

-----------------------------------------------------------------------------
(* switch_interface/predictive.py: one Predictor and the threads that call  *)
(* its suggestion methods.  Each caller runs _ensure_thread one line at a   *)
(* step, so that the steps of different callers interleave.                 *)

MaxCallers == 2      \* threads that call the suggestion methods
MaxSuggest == 3      \* suggestion calls in one run

Callers == 1..MaxCallers

\* suggest_words and suggest_letters, each with its own lru_cache
Methods == {"suggest_words", "suggest_letters"}

\* Predictor.__init__, lines 17-27: no thread, not ready, the lock free;
\* started counts the calls of Thread.start()
Predictor ==
    [thread |-> "None", ready |-> FALSE, lock |-> 0, started |-> 0,
     builder |-> "none", cache |-> {},
     pc |-> [c \in Callers |-> "idle"],
     method |-> [c \in Callers |-> "none"],
     calls |-> 0, returned |-> 0, skipped |-> 0]

\* line 53: nothing to do when the n-grams are ready or a thread is set
AlreadyRunning(p) == p.ready \/ p.thread # "None"

\* every caller that holds the lock starts a thread
NeedsThreadUnchecked(p) == TRUE

\* line 56: the check is made again under the lock
NeedsThread(p) == p.thread = "None" /\ ~p.ready

InitPredictor ==
    /\ InitDetector
    /\ ListenIdle
    /\ ReplayIdle
    /\ CalibIdle
    /\ OptIdle
    /\ PersistIdle
    /\ ScanIdle
    /\ MainIdle
    /\ TwinIdle
    /\ ControllerIdle
    /\ predictor = Predictor

NotPredictor ==
    UNCHANGED <<dvars, lvars, rvars, cvars, ovars, pvars, gvars, tvars, kvars>>

\* a thread calls suggest_words or suggest_letters: a cached result is
\* returned at once (lines 79 and 89), otherwise _ensure_thread is entered
Suggest ==
    /\ predictor.calls < MaxSuggest
    /\ \E c \in Callers, m \in Methods :
        /\ predictor.pc[c] = "idle"
        /\ predictor' =
              IF m \in predictor.cache
              THEN [predictor EXCEPT !.calls = @ + 1, !.returned = @ + 1]
              ELSE [predictor EXCEPT !.calls = @ + 1, !.pc[c] = "53",
                                     !.method[c] = m]
    /\ NotPredictor

\* lines 53-54
CheckUnlocked ==
    /\ \E c \in Callers :
        /\ predictor.pc[c] = "53"
        /\ predictor' =
              [predictor EXCEPT !.pc[c] = IF AlreadyRunning(predictor)
                                          THEN "return" ELSE "55"]
    /\ NotPredictor

\* line 55: the lock is taken when it is free
Acquire ==
    /\ \E c \in Callers :
        /\ predictor.pc[c] = "55"
        /\ predictor.lock = 0
        /\ predictor' = [predictor EXCEPT !.lock = c, !.pc[c] = "56"]
    /\ NotPredictor

\* lines 56-57: the thread object is stored before it is started
CheckLocked ==
    /\ \E c \in Callers :
        /\ predictor.pc[c] = "56"
        /\ predictor' =
              IF NeedsThread(predictor)
              THEN [predictor EXCEPT !.thread = "Thread", !.pc[c] = "58"]
              ELSE [predictor EXCEPT !.skipped = @ + 1, !.lock = 0,
                                     !.pc[c] = "return"]
    /\ NotPredictor

\* line 58 and the end of the with block
StartThread ==
    /\ \E c \in Callers :
        /\ predictor.pc[c] = "58"
        /\ predictor' =
              [predictor EXCEPT !.started = @ + 1, !.builder = "running",
                                !.lock = 0, !.pc[c] = "return"]
    /\ NotPredictor

\* the rest of the suggestion method: the result is returned and cached
Return ==
    /\ \E c \in Callers :
        /\ predictor.pc[c] = "return"
        /\ predictor' =
              [predictor EXCEPT !.returned = @ + 1, !.pc[c] = "idle",
                                !.method[c] = "none",
                                !.cache = @ \cup {predictor.method[c]}]
    /\ NotPredictor

\* _build_ngrams, lines 30-48, in the builder thread
BuildNgrams ==
    /\ predictor.builder = "running"
    /\ predictor' = [predictor EXCEPT !.ready = TRUE, !.builder = "done"]
    /\ NotPredictor

NextPredictor ==
    \/ Suggest
    \/ CheckUnlocked
    \/ Acquire
    \/ CheckLocked
    \/ StartThread
    \/ Return
    \/ BuildNgrams

SpecPredictor == InitPredictor /\ [][NextPredictor]_vars

-----------------------------------------------------------------------------
(* The last call, as the properties below read it *)

Called == ncalls > 0 /\ raised = <<>>
Data == block.data
N == Len(block.data)
\* the thresholds of the last call: the returned bias is the bias they used
DynUpper == state.bias + upper_offset
DynLower == state.bias + lower_offset
\* samples[i] >= dyn_upper and samples[i + 1] <= dyn_lower over
\* [prev_sample] ++ block, i counted from 0
IsCrossing(i) ==
    /\ (IF i = 0 THEN entry.prev_sample ELSE Data[i]) >= DynUpper
    /\ Data[i + 1] <= DynLower

-----------------------------------------------------------------------------
(* Properties *)

\* C1: in every reachable state cooldown >= 0, and armed implies
\* cooldown = 0.
C1_ArmedImpliesNoCooldown ==
    /\ state.cooldown >= 0
    /\ state.armed => state.cooldown = 0

\* a press whose refractory period ran out inside the block re-armed the
\* detector
C1_Witness ==
    /\ Called
    /\ press_index # <<>>
    /\ refractory_samples > 0
    /\ state.armed
    /\ state.cooldown = 0

\* C2: once the refractory period has elapsed (disarmed, cooldown = 0) and
\* the signal is back at or above dyn_upper for a whole block, the detector
\* is armed again.
C2_RearmsAfterRise ==
    ( /\ Called
      /\ upper_offset > lower_offset
      /\ ~entry.armed
      /\ entry.cooldown = 0
      /\ \A i \in 1..N : Data[i] >= DynUpper )
    => state.armed

\* C3: entered armed, a press is reported iff [prev_sample] ++ block has a
\* crossing, and the offset reported is the smallest crossing index.
C3_FirstCrossingReported ==
    (Called /\ entry.armed) =>
        /\ press_index # <<>> <=> \E i \in 0..(N - 1) : IsCrossing(i)
        /\ press_index # <<>> =>
              /\ press_index[1] \in 0..(N - 1)
              /\ IsCrossing(press_index[1])
              /\ \A j \in 0..(press_index[1] - 1) : ~IsCrossing(j)

\* a block with two crossings, entered armed: only the first is reported
C3_Witness ==
    /\ Called
    /\ entry.armed
    /\ Cardinality({i \in 0..(N - 1) : IsCrossing(i)}) >= 2
    /\ press_index = <<0>>

\* C4: the last sample of a block is carried into the next call, where an
\* armed detector reports the edge from it to the first sample at offset 0;
\* a press is only ever reported for a low sample of the block being
\* processed, so the straddling edge is not reported by the earlier call.
C4_StraddlingEdgeOnce ==
    Called =>
        /\ state.prev_sample = Data[N]
        /\ ( /\ entry.armed
             /\ entry.prev_sample >= DynUpper
             /\ Data[1] <= DynLower ) => press_index = <<0>>
        /\ press_index # <<>> =>
              /\ press_index[1] \in 0..(N - 1)
              /\ Data[press_index[1] + 1] <= DynLower

\* second call of a stream: the first block ended high and reported no
\* press, the second starts low and reports the press at offset 0
C4_Witness ==
    /\ Called
    /\ ncalls = 2
    /\ gap = <<>>
    /\ entry.armed
    /\ entry.prev_sample >= DynUpper
    /\ Data[1] <= DynLower
    /\ press_index = <<0>>

\* C5: two consecutive presses are at least refractory_samples apart.
C5_RefractoryGap ==
    gap # <<>> => gap[1] >= refractory_samples

\* two presses as close as the detector allows with a refractory period of
\* two samples
C5_Witness ==
    /\ gap # <<>>
    /\ refractory_samples = 2
    /\ gap[1] = 3

\* C6: the detector goes back to armed only with cooldown = 0 and a sample
\* of the block at or above dyn_upper; entered disarmed on a block that stays
\* below dyn_upper it stays disarmed and reports no press.
C6_StrictRearm ==
    Called =>
        /\ (state.armed /\ (~entry.armed \/ press_index # <<>>)) =>
              /\ state.cooldown = 0
              /\ \E i \in 1..N : Data[i] >= DynUpper
        /\ (~entry.armed /\ \A i \in 1..N : Data[i] < DynUpper) =>
              /\ ~state.armed
              /\ press_index = <<>>

\* switch held down after the cooldown has run out
C6_Witness ==
    /\ Called
    /\ ~entry.armed
    /\ entry.cooldown = 0
    /\ \A i \in 1..N : Data[i] < DynUpper
    /\ ~state.armed

\* C7: the EdgeState passed in has the same fields after the call as before.
C7_NoSideEffects ==
    ncalls > 0 => arg = entry

C9_ShapeError ==
    (ncalls > 0 /\ ndim(block) # 1) =>
        /\ raised # <<>>
        /\ raised[1] = "ValueError"
        /\ raised[2].shape = block.shape
        /\ press_index = <<>>
        /\ state = entry
        /\ arg = entry

\* a 2x2 block handed to a detector that is cooling after a press
C9_Witness ==
    /\ ncalls = 2
    /\ block.shape = <<2, 2>>
    /\ raised # <<>>
    /\ ~state.armed
    /\ state.cooldown > 0

\* C10: with upper_offset <= lower_offset the call fails instead of
\* processing the block, and the state is unchanged.
C10_ConfigError ==
    (ncalls > 0 /\ upper_offset <= lower_offset /\ ndim(block) = 1) =>
        /\ raised # <<>>
        /\ press_index = <<>>
        /\ state = entry

\* C11: listen with upper_offset <= lower_offset raises before any stream
\* is opened: no attempt, no block processed, no on_press.
C11_ListenRejectsConfig ==
    (fn = "listen" /\ upper_offset <= lower_offset) =>
        /\ pc = "raised"
        /\ exc = <<"ValueError">>
        /\ opens = <<>>
        /\ ncalls = 0
        /\ on_press_calls = 0

\* listen was called with the degenerate offsets on a host that offers
\* exclusive-mode settings
C11_Witness ==
    /\ fn = "listen"
    /\ upper_offset <= lower_offset
    /\ extra
    /\ exc = <<"ValueError">>

\* C12: at most two attempts; the first with extra settings exactly when
\* they are available, a second one only after a failed first with extra
\* settings, and without them; RuntimeError exactly when the last attempt
\* failed; one attempt only when there are no extra settings.
C12_OpenFallback ==
    (fn # "" /\ exc # <<"ValueError">>) =>
        /\ Len(opens) \in {1, 2}
        /\ opens[1].extra_settings = extra
        /\ Len(opens) = 2 <=> (extra /\ ~opens[1].ok)
        /\ Len(opens) = 2 => ~opens[2].extra_settings
        /\ exc = <<"RuntimeError">> <=> ~opens[Len(opens)].ok
        /\ exc = <<>> <=> opens[Len(opens)].ok
        /\ ~extra => Len(opens) = 1

\* the exclusive-mode attempt failed and the shared-mode one succeeded
C12_Witness ==
    /\ fn = "listen"
    /\ Len(opens) = 2
    /\ ~opens[1].ok
    /\ opens[2].ok
    /\ exc = <<>>
    /\ pc = "running"

\* C13: on_press has been invoked once for each callback in which
\* detect_edges reported a press, offset 0 included, and a callback invokes
\* it only when its block has a press.
C13_OnPressPerPress == on_press_calls = reported

\* two callbacks, the second with a press at offset 0, both answered
C13_Witness ==
    /\ pc = "running"
    /\ ncalls = 2
    /\ press_index = <<0>>
    /\ on_press_calls = 2

\* C14: the replay returns one event for every block in which detect_edges
\* reported a press, a press at offset 0 included.
C14_OneEventPerPress ==
    nreplays > 0 =>
        /\ Len(events) = Len(log)
        /\ \A i \in 1..Len(log) : log[i].event # <<>>

\* C15: every event recorded by the replay is block start + press offset.
C15_EventIsSampleIndex ==
    nreplays > 0 =>
        \A i \in 1..Len(log) :
            log[i].event # <<>> =>
                log[i].event[1] = log[i].start + log[i].press_index

\* C16: a replay returns what a fresh run of the loop on its own arguments
\* returns, whatever was replayed before, and the cache stores nothing else.
C16_ReplayDeterministic ==
    /\ nreplays > 0 =>
          events = _memoised_count(clip, fs, upper_offset, lower_offset,
                                   debounce_ms, blocksize).events
    /\ \A k \in DOMAIN cache :
          cache[k] = _memoised_count(k.buf, k.fs, k.upper, k.lower,
                                     k.debounce_ms, k.block).events

\* a second replay of the clip, with another debounce than the first, that
\* found other events
C16_Witness ==
    /\ nreplays = 2
    /\ ~hit
    /\ \E k \in DOMAIN cache :
          /\ k.debounce_ms # debounce_ms
          /\ k.block = blocksize
          /\ cache[k] # events

\* calibrate has returned a result
Returned == cpc = "done"

\* C17: in the result of calibrate no two adjacent events are closer than
\* the returned debounce: (b - a) / samplerate >= debounce_ms / 1000.
C17_NoDoubleFire ==
    Returned =>
        \A i \in 1..(Len(best_events) - 1) :
            (best_events[i + 1] - best_events[i]) * 1000 >= best_db * fs

\* C19: with a target, the returned events are at least as close to the
\* target as every candidate the run evaluated.
C19_ReturnsBestCandidate ==
    (Returned /\ target_presses # <<>>) =>
        \A e \in scores : score(best_events, target_presses) <= e

\* C20: the debounce the sweep leaves has the smallest |count - target| of
\* the swept values, and is the smallest debounce among those with it.
C20_SweepPicksClosestSmallest ==
    (sweep_db # <<>> /\ target_presses # <<>>) =>
        \E c \in swept :
            /\ c.d = sweep_db[1]
            /\ \A o \in swept :
                  c.err < o.err \/ (c.err = o.err /\ c.d <= o.d)

\* 2^n
RECURSIVE Pow2(_)
Pow2(n) == IF n = 0 THEN 1 ELSE 2 * Pow2(n - 1)

\* the loops of auto_calibration.calibrate: the iterations made stay under
\* the loop's cap and the loop variable advances with them
AutoLoopsBounded ==
    /\ cpc = "sweep" =>
          /\ sweep_d = DbFirst + DbStep * (iters + 1)
          /\ sweep_d <= DbLast
    /\ cpc = "tweak" => iters < MaxTweaks
    /\ cpc = "dedup" =>
          /\ best_db <= DbCap
          /\ DbFirst + DbStep * iters <= best_db

\* the loops of optimal_calibration.calibrate: the for loops advance through
\* their ranges, and each iteration of a bisection halves high - low
OptLoopsBounded ==
    /\ opt.pc = "sweep" =>
          /\ opt.db = OptDbFirst + OptDbStep * opt.iters
          /\ opt.db <= OptDbLast
    /\ opt.pc \in {"bisect", "gapbisect"} =>
          (opt.high - opt.low) * Pow2(opt.iters) = OptHigh - OptLow
    /\ opt.pc \in {"gap", "gapbisect", "gapend"} =>
          opt.g \in 1..Len(search_values)
    /\ opt.pc = "size" =>
          /\ opt.size = opt.iters + 1
          /\ opt.size <= Len(block_sizes)

OptReturned == opt.pc = "done"

\* the number of halvings after which a width is at most the tolerance
RECURSIVE Halvings(_)
Halvings(w) == IF w <= OptTol THEN 0 ELSE 1 + Halvings(w \div 2)

\* an upper bound of the steps auto_calibration.calibrate has left: the
\* iterations left in the loop it is in, and the longest every later phase
\* can take
AutoVariant ==
    LET dedup == 1 + (DbCap - DbFirst) \div DbStep
    IN  CASE cpc = "start" ->
               dedup + MaxTweaks + 3 + (DbLast - DbFirst) \div DbStep
          [] cpc = "sweep" ->
               dedup + MaxTweaks + 2 + (DbLast - sweep_d) \div DbStep
          [] cpc = "phase2" -> dedup + MaxTweaks + 1
          [] cpc = "tweak" -> dedup + MaxTweaks - iters
          [] cpc = "dedup" -> 1 + (DbCap - best_db) \div DbStep
          [] OTHER -> 0

\* the same for optimal_calibration.calibrate
OptVariant ==
    LET bisect == Halvings(OptHigh - OptLow)
        sizes == Len(block_sizes) + 2
        gaps == Len(search_values)
        tune == sizes + gaps * (bisect + 3) + 1
    IN  CASE opt.pc = "start" ->
               tune + bisect + 4 + (OptDbLast - OptDbFirst) \div OptDbStep
          [] opt.pc = "sweep" ->
               tune + bisect + 3 + (OptDbLast - opt.db) \div OptDbStep
          [] opt.pc = "search" -> tune + bisect + 2
          [] opt.pc = "bisect" -> tune + 1 + Halvings(opt.high - opt.low)
          [] opt.pc = "tune" -> tune
          [] opt.pc = "gap" -> sizes + (gaps - opt.g + 1) * (bisect + 3)
          [] opt.pc = "gapbisect" ->
               sizes + (gaps - opt.g) * (bisect + 3) + 2
                     + Halvings(opt.high - opt.low)
          [] opt.pc = "gapend" -> sizes + (gaps - opt.g) * (bisect + 3) + 1
          [] opt.pc = "sizes" -> sizes
          [] opt.pc = "size" -> Len(block_sizes) - opt.size + 2
          [] opt.pc = "return" -> 1
          [] OTHER -> 0

Variant == AutoVariant + OptVariant

\* C18: both calibrate procedures terminate, for every clip and target:
\* every loop stays within its bound, only a call that has returned has
\* no steps left, and every step of a call lowers the bound of the steps
\* it has left.
C18_Terminates ==
    /\ [](/\ AutoLoopsBounded
          /\ OptLoopsBounded
          /\ Variant >= 0
          /\ Variant = 0 => Returned \/ OptReturned)
    /\ [][Variant' < Variant]_vars

\* calibrate returned after its de-duplication loop had iterated
C18_Witness ==
    /\ Returned
    /\ sweep_db # <<>>
    /\ best_db > sweep_db[1]

\* C21: with a target, a returned result whose event count is not the
\* target was announced by a warning of the calibration logger during the
\* run: "no exact debounce" (line 219) or "calib_ok=False" (line 286).
C21_WarnedOnMismatch ==
    (Returned /\ target_presses # <<>>
              /\ Len(best_events) # target_presses[1]) =>
        warned \/ diag.warned

\* some sample of the clip is at least pad away from every returned event
IdleRegionExists ==
    \E i \in 0..(Len(clip) - 1) :
        \A k \in 1..Len(best_events) :
            i < best_events[k] - pad(fs) \/ i >= best_events[k] + pad(fs)

\* the returned count is more than 10 % of the target away from it
CountFarOff ==
    /\ target_presses # <<>>
    /\ 10 * Abs(Len(best_events) - target_presses[1]) > target_presses[1]

\* C22: calib_ok is true exactly when an idle region exists, depth_med is
\* above three times baseline_std and the event count is within 10 % of
\* the target; a count further off, or no idle region, gives calib_ok =
\* False, and "calib_ok=False" is logged exactly when calib_ok is false.
C22_CalibOk ==
    Returned =>
        /\ diag.calib_ok <=>
               /\ IdleRegionExists
               /\ diag.depth_ok
               /\ CountWithinTenth(best_events, target_presses)
        /\ CountFarOff => ~diag.calib_ok
        /\ ~IdleRegionExists => ~diag.calib_ok
        /\ diag.warned <=> ~diag.calib_ok

\* a result with an idle region and deep enough troughs whose count is too
\* far from the target: calib_ok is False and the warning is logged
C22_Witness ==
    /\ Returned
    /\ IdleRegionExists
    /\ diag.depth_ok
    /\ CountFarOff
    /\ ~diag.calib_ok
    /\ diag.warned

\* C23: every configuration a calibrator returns has
\* upper_offset > lower_offset.
C23_UpperAboveLower ==
    /\ Returned => u_off > l_off
    /\ OptReturned => opt.final_upper > opt.lower

\* C24: the debounce calibrate returns lies in 10..60 ms; the
\* de-duplication pass only raises it, by 2 ms per step and only while
\* duplicates remain under the cap, and it ends with no duplicates left or
\* at 60 ms.
C24_DebounceRange ==
    /\ [](Returned =>
            /\ DbFirst <= best_db
            /\ best_db <= DbCap
            /\ sweep_db[1] <= best_db
            /\ ~_has_duplicates(best_events, best_db, fs) \/ best_db = DbCap)
    /\ [][cpc = "dedup" =>
            \/ /\ cpc' = "dedup"
               /\ _has_duplicates(best_events, best_db, fs)
               /\ best_db < DbCap
               /\ best_db' = best_db + 2
            \/ /\ cpc' = "done"
               /\ best_db' = best_db
               /\ best_events' = best_events]_vars

\* the pass raised the debounce and ended below the cap, without duplicates
C24_Witness ==
    /\ Returned
    /\ best_db > sweep_db[1]
    /\ best_db < DbCap
    /\ ~_has_duplicates(best_events, best_db, fs)

Corrupt(file) ==
    \/ file.kind \in {"missing", "unreadable", "invalid", "array"}
    \/ file.kind = "object" /\ ~(DOMAIN file.members \subseteq FieldNames)

\* C26: load_config on a missing or corrupt file raises nothing and
\* returns the built-in defaults: -0.2, -0.5, 44100, 256, 40, None.
C26_DefaultsOnCorrupt ==
    \A i \in 1..Len(persist.ops) :
        (persist.ops[i].op = "load" /\ Corrupt(persist.ops[i].seen)) =>
            /\ persist.ops[i].raised = <<>>
            /\ persist.ops[i].result =
                  <<[upper_offset |-> PyFloat(-2000),
                     lower_offset |-> PyFloat(-5000),
                     samplerate |-> PyInt(44100), blocksize |-> PyInt(256),
                     debounce_ms |-> PyInt(40), device |-> PyNone]>>

\* a file that is not JSON was loaded
C26_Witness ==
    \E i \in 1..Len(persist.ops) :
        /\ persist.ops[i].op = "load"
        /\ persist.ops[i].seen.kind = "invalid"
        /\ persist.ops[i].raised = <<>>

\* an on_press call has just returned or raised; Before is what it found
PressDone ==
    scanner.phase # "none" /\ scanner.before # <<>> /\ scanner.ticks = 0

Before == scanner.before[1]

\* the highlighted key was dispatched on once, and sent if it is a plain key
ActivatedOnce ==
    /\ scanner.activated =
          SubSeq(scanner.activated, 1, Before.activated)
              \o <<[page |-> Before.current_page,
                    index |-> Before.highlight_index,
                    action |-> Before.key]>>
    /\ scanner.pressed =
          SubSeq(scanner.pressed, 1, Before.pressed)
              \o (IF Before.key = "key"
                  THEN <<[page |-> Before.current_page,
                          index |-> Before.highlight_index]>>
                  ELSE <<>>)

\* a press in the ROW phase, a row being highlighted: that row is selected,
\* its first key highlighted, no key activated
RowPress ==
    (/\ PressDone
     /\ scanner.row_column_scan
     /\ Before.phase = "ROW"
     /\ Before.highlight_row_index # <<>>) =>
        /\ scanner.phase = "KEY"
        /\ scanner.current_row = Before.highlight_row_index[1]
        /\ scanner.highlight_row_index = <<>>
        /\ scanner.highlight_index =
              row_start_indices(scanner)[scanner.current_row + 1]
        /\ Len(scanner.activated) = Before.activated
        /\ Len(scanner.pressed) = Before.pressed

\* C27: every on_press call has taken one item from the queue: the calls
\* and the items still queued add up to the presses put in the queue, so
\* the calls never exceed the presses.
C27_OneCallPerPress ==
    press_queue.pump # "none" =>
        /\ scanner.calls + press_queue.items = press_queue.put
        /\ scanner.calls <= press_queue.put

\* C28 as stated: in row/column scanning a ROW-phase press selects the
\* highlighted row and highlights its first key without activating a key;
\* a KEY-phase press activates the highlighted key once and returns to the
\* ROW phase, with row 0 highlighted when reset_after_press is set.
C28_RowColumnPress ==
    /\ RowPress
    /\ (PressDone /\ scanner.row_column_scan /\ Before.phase = "KEY") =>
          /\ ActivatedOnce
          /\ scanner.phase = "ROW"
          /\ scanner.reset_after_press =>
                scanner.highlight_row_index = <<0>>

\* C28 amended: the KEY-phase part holds for every key but a reset_scan_row
\* key, which is kept from the global reset.
C28_RowColumnPressButReset ==
    /\ RowPress
    /\ (/\ PressDone
        /\ scanner.row_column_scan
        /\ Before.phase = "KEY"
        /\ Before.key # "reset_scan_row") =>
          /\ ActivatedOnce
          /\ scanner.phase = "ROW"
          /\ scanner.reset_after_press =>
                scanner.highlight_row_index = <<0>>

\* row 1 was selected, and then its second key was pressed and sent
C28_Witness ==
    /\ PressDone
    /\ scanner.row_column_scan
    /\ scanner.reset_after_press
    /\ Before.phase = "KEY"
    /\ Before.key = "key"
    /\ scanner.current_row = 1
    /\ Before.highlight_index = 3
    /\ scanner.highlight_row_index = <<0>>

\* C29: in linear scanning with reset_after_press, a press on a key other
\* than a reset_scan_row key activates the key highlighted at press time
\* once and leaves key 0 highlighted.
C29_LinearReset ==
    (/\ PressDone
     /\ ~scanner.row_column_scan
     /\ scanner.reset_after_press
     /\ Before.key # "reset_scan_row") =>
        /\ ActivatedOnce
        /\ scanner.raised = <<>>
        /\ scanner.highlight_index = 0

\* the last key of the page was highlighted and pressed
C29_Witness ==
    /\ PressDone
    /\ ~scanner.row_column_scan
    /\ scanner.reset_after_press
    /\ Before.key = "key"
    /\ Before.highlight_index = 3
    /\ scanner.highlight_index = 0

\* C30: a press on a reset_scan_row key leaves the first key of that key's
\* row highlighted and sends nothing; without reset_after_press the next
\* tick highlights the key after the row start.
C30_ResetScanRow ==
    (/\ scanner.phase # "none"
     /\ scanner.before # <<>>
     /\ Before.key = "reset_scan_row") =>
        /\ scanner.ticks = 0 =>
              /\ scanner.highlight_index = Before.row_start
              /\ Len(scanner.pressed) = Before.pressed
        /\ (scanner.ticks = 1 /\ ~scanner.reset_after_press) =>
              scanner.highlight_index =
                  (Before.row_start + 1) % Len(key_widgets(scanner))

\* C33: a call entered disarmed with cooldown c on a block of n samples that
\* reports no press returns cooldown = max(0, c - n).
C33_CooldownDecrement ==
    (Called /\ ~entry.armed /\ press_index = <<>>) =>
        state.cooldown =
            IF entry.cooldown > N THEN entry.cooldown - N ELSE 0

\* C34: block by block, _detect_events counts a press in exactly the blocks
\* in which detect_edges reports one.
C34_SamePresses ==
    twin.pos >= 0 => twin.prod_press = twin.sim_press

\* C35: the events calibrate returns are the events the replay gives for
\* the offsets and the debounce it returns, on the same clip.
C35_EventsOfReturnedConfig ==
    Returned =>
        best_events =
            _memoised_count(clip, fs, u_off, l_off, best_db,
                            DefaultBlock).events

\* the sweep missed the target, and the tweak then met it with the offsets
\* scaled by 1.15
C35_Witness ==
    /\ Returned
    /\ clip \in SoftClips
    /\ target_presses = <<2>>
    /\ Len(best_events) = 2
    /\ scale = 11500
    /\ u_off = -4600

\* the number of events the replay finds at debounce d with the returned
\* offsets (without a target the tweak leaves the first offsets alone)
CountAt(d) ==
    Len(_memoised_count(clip, fs, u_off, l_off, d, DefaultBlock).events)

\* the values of db_list[1:] whose count is within 2% of the count at 10 ms
WithinTwoPercent ==
    {d \in {DbFirst + DbStep * k : k \in 1..((DbLast - DbFirst) \div DbStep)} :
        100 * Abs(CountAt(d) - CountAt(DbFirst)) <= 2 * CountAt(DbFirst)}

\* C36: without a target the sweep leaves the first debounce whose count is
\* within 2% of the count at 10 ms, and 10 ms when there is none.
C36_FirstStableDebounce ==
    (Returned /\ target_presses = <<>>) =>
        sweep_db[1] =
            IF WithinTwoPercent = {} THEN DbFirst
            ELSE CHOOSE d \in WithinTwoPercent :
                     \A e \in WithinTwoPercent : d <= e

\* the events call i of on_key sent
SentBy(i) ==
    SubSeq(controller.sent, controller.calls[i].from + 1,
           IF i < Len(controller.calls) THEN controller.calls[i + 1].from
           ELSE Len(controller.sent))

\* call i is a tap: the key is neither a toggle nor a latch modifier
IsTap(i) ==
    /\ controller.calls[i].op = "on_key"
    /\ controller.calls[i].key.mode = "tap"

\* C31: a tap that finds a modifier latched sends its payload between a
\* press and a release of that modifier and clears the latch; a tap that
\* finds none latched sends its payload alone.
C31_LatchAppliesOnce ==
    \A i \in 1..Len(controller.calls) :
        IsTap(i) =>
            LET c == controller.calls[i]
                payload == IF Predictive(c.key)
                           THEN on_key(ModifierState, c.key).sent
                           ELSE send_payload(c.key)
            IN  IF c.before._latched # <<>>
                THEN /\ SentBy(i) =
                          <<[ev |-> "press", key |-> c.before._latched[1]]>>
                          \o payload
                          \o <<[ev |-> "release",
                                key |-> c.before._latched[1]]>>
                     /\ c.after._latched = <<>>
                ELSE SentBy(i) = payload

\* C32: a Predictor is constructed without a builder thread; once a
\* suggestion call has returned the thread is set, once every call that was
\* made has returned it has been started; and Thread.start is called at most
\* once, however the callers interleave
C32_OneBuilderThread ==
    predictor.started >= 0 =>
        /\ predictor.started <= 1
        /\ predictor.calls = 0 =>
              predictor.started = 0 /\ predictor.thread = "None"
        /\ predictor.returned >= 1 => predictor.thread # "None"
        /\ (predictor.returned >= 1 /\ predictor.returned = predictor.calls)
              => predictor.started = 1

\* two callers passed line 53 together; the second one found the thread
\* under the lock, and the calls have returned with one thread started
C32_Witness ==
    /\ predictor.started = 1
    /\ predictor.skipped >= 1
    /\ predictor.returned >= 2

\* C37: once stop() has been called no tick is pending until start() is
\* called, whatever calls of on_press come in between, and at most one tick
\* is pending at any time
C37_StoppedStaysStopped ==
    scanner.phase # "none" =>
        /\ scanner.stopped => scanner.pending = 0
        /\ scanner.pending <= 1

\* C38: no call of _tick or on_press has raised IndexError, and the cursors
\* and the highlight are indices of keys and rows of the page that is shown
C38_IndicesInRange ==
    scanner.phase # "none" =>
        /\ scanner.raised = <<>>
        /\ scanner.key_cursor < Len(key_widgets(scanner))
        /\ scanner.row_cursor < Len(row_start_indices(scanner))
        /\ scanner.highlight_index < Len(key_widgets(scanner))

\* the key that follows key h in the selected row, the first key following
\* the last one
RowSuccessor(s, h) ==
    LET first == row_start_indices(s)[s.current_row + 1]
        width == Len(s.layout[s.current_page + 1][s.current_row + 1])
    IN  first + ((h - first + 1) % width)

\* a step of the KEY phase of row/column scanning that is not a press
KeyPhaseTick ==
    /\ scanner.phase = "KEY"
    /\ scanner.row_column_scan
    /\ scanner'.phase = "KEY"
    /\ scanner'.calls = scanner.calls

\* C39: in the KEY phase of row/column scanning the highlighted key is a key
\* of the selected row, and a tick moves the highlight to the next key of
\* that row, from the last key back to the first
C39_KeyPhaseStaysInRow ==
    /\ []((scanner.phase = "KEY" /\ scanner.row_column_scan) =>
            /\ scanner.raised = <<>>
            /\ row_indices(scanner)[scanner.highlight_index + 1]
                  = scanner.current_row)
    /\ [][KeyPhaseTick =>
            /\ scanner'.current_row = scanner.current_row
            /\ scanner'.highlight_index
                  = RowSuccessor(scanner, scanner.highlight_index)]_vars

\* row 1 was selected and two ticks later its first key is highlighted again
C39_Witness ==
    /\ scanner.phase = "KEY"
    /\ scanner.row_column_scan
    /\ scanner.before # <<>>
    /\ Before.phase = "ROW"
    /\ scanner.ticks = 2
    /\ scanner.current_row = 1
    /\ Len(scanner.layout[1][2]) = 2
    /\ scanner.highlight_index = 2

\* C40: shift_armed is true exactly when Shift is latched, caps_on exactly
\* when Caps Lock is among the toggles, the latch holds at most one key,
\* and two toggles of one key in a row restore the toggles.
C40_ModifierStateConsistent ==
    /\ controller.calls # <<>> =>
          /\ controller.state.shift_armed
                <=> controller.state._latched = <<"shift">>
          /\ controller.state.caps_on
                <=> "caps_lock" \in controller.state._toggles
          /\ Len(controller.state._latched) <= 1
    /\ \A i \in 1..(Len(controller.calls) - 1) :
          LET a == controller.calls[i]
              b == controller.calls[i + 1]
          IN  (a.op = "toggle" /\ b.op = "toggle" /\ a.key = b.key) =>
                  /\ b.after._toggles = a.before._toggles
                  /\ b.after.caps_on = a.before.caps_on

\* Caps Lock was toggled on and off again with Shift latched meanwhile
C40_Witness ==
    /\ Len(controller.calls) = 3
    /\ controller.calls[1].op = "latch"
    /\ controller.calls[1].key = "shift"
    /\ controller.calls[2].op = "toggle"
    /\ controller.calls[2].key = "caps_lock"
    /\ controller.calls[2].after.caps_on
    /\ controller.calls[3].op = "toggle"
    /\ controller.calls[3].key = "caps_lock"
    /\ controller.state.shift_armed
    /\ ~controller.state.caps_on

====
